---- MODULE Spec2Model ----
(***************************************************************************)
(* diagnose-it: the DiagnosticsMessage object, its FixItHint values and    *)
(* the patch generator, as state machines over small input sets.           *)
(*                                                                         *)
(* A JavaScript string is a sequence of one-character strings; an optional *)
(* value (T | undefined) is the empty tuple or a one-element tuple.        *)
(***************************************************************************)
EXTENDS Integers, Sequences, FiniteSets, TLC

VARIABLES constructed, file, level, message, context, fixitHints, hint, last, ret, chalkLevel,
          raw, sarif, expressive, extractions

vars == <<constructed, file, level, message, context, fixitHints, hint, last, ret, chalkLevel,
          raw, sarif, expressive, extractions>>

\* the state outside a DiagnosticsMessage: the two extractors, the legacy
\* ExpressiveMessage and the extractRaw calls running side by side
extractFrame == <<raw, sarif, expressive, extractions>>

\* no extraction under way
rawIdle ==
  [lineReader |-> <<>>, currentMessage |-> <<>>, matchIndex |-> 0, yielded |-> <<>>,
   status |-> "done"]

sarifIdle ==
  [log |-> <<>>, run |-> <<>>, result |-> 1, location |-> 1, yielded |-> <<>>,
   status |-> "done"]

\* no extractRaw calls side by side; lastIndex is that of the one
\* LLVM_EXPRESSIVE_DIAGNOSTICS_REGEX object of the module
extractionsIdle == [iterators |-> <<>>, lastIndex |-> 0]

\* no ExpressiveMessage object
expressiveNone ==
  [constructed |-> FALSE, id |-> <<>>, message |-> <<>>, lineNumber |-> 1, context |-> <<>>,
   op |-> "none", result |-> "none"]

(***************************************************************************)
(* Bounds of the model                                                     *)
(***************************************************************************)
MaxIndex == 3
MaxLength == 2
MaxLine == 3
MaxColumn == 2
MaxHints == 2
MaxShift == 6

(***************************************************************************)
(* JavaScript values                                                       *)
(***************************************************************************)
Undefined == <<>>

Some(v) == <<v>>

\* a ?? d
OrElse(a, d) == IF a = Undefined THEN d ELSE a[1]

Min(a, b) == IF a < b THEN a ELSE b

Max(a, b) == IF a > b THEN a ELSE b

\* String.prototype.slice(start, end), 0-based, negative indices count from the end
Slice(s, start, end) ==
  LET len == Len(s)
      from == IF start < 0 THEN Max(len + start, 0) ELSE Min(start, len)
      to == IF end < 0 THEN Max(len + end, 0) ELSE Min(end, len)
  IN IF from >= to THEN <<>> ELSE SubSeq(s, from + 1, to)

\* String.prototype.slice(start)
SliceFrom(s, start) == Slice(s, start, Len(s))

\* /\r?\n/.test(s)
HasLineBreak(s) == \E i \in 1..Len(s) : s[i] = "\n"

\* s.includes(" ")
HasSpace(s) == \E i \in 1..Len(s) : s[i] = " "

(***************************************************************************)
(* FixItHint                                                               *)
(***************************************************************************)
ModificationType == {"DEFAULT", "INSERT", "REMOVE", "REPLACE"}

\* the constructor's throw conditions
FixItHintThrowsNoDefaultCheck(modification, range, text) ==
  \/ /\ modification \in {"INSERT", "REPLACE"}
     /\ \/ text = Undefined
        \/ modification = "INSERT" /\ range.length > 1
  \/ /\ modification = "REMOVE"
     /\ text # Undefined

FixItHintThrows(modification, range, text) ==
  \/ /\ modification \in {"INSERT", "REPLACE"}
     /\ \/ text = Undefined
        \/ modification = "INSERT" /\ range.length > 1
  \/ /\ modification \in {"REMOVE", "DEFAULT"}
     /\ text # Undefined

\* the object the constructor leaves behind when it does not throw
FixItHintValue(modification, range, text) ==
  [modification |-> modification,
   range |-> range,
   text |-> IF modification \in {"INSERT", "REPLACE"} THEN text ELSE Undefined]

\* inputs of the constructor
RangeInputs == [index : 0..MaxIndex, length : (-1)..MaxLength]

HintTexts == {<<>>, <<"x">>, <<"x", "y">>}

TextInputs == {Undefined} \cup {Some(t) : t \in HintTexts}

msgFrame == <<constructed, file, level, message, context, fixitHints, ret, chalkLevel>>

\* a call of the constructor, entered through `op`
construct(op, modification, range, text) ==
  /\ hint' = IF FixItHintThrows(modification, range, text)
             THEN Undefined
             ELSE Some(FixItHintValue(modification, range, text))
  /\ last' = [op |-> op, ok |-> ~FixItHintThrows(modification, range, text),
              modification |-> modification, range |-> range, text |-> text]
  /\ UNCHANGED msgFrame
  /\ UNCHANGED extractFrame

\* new FixItHint(modification, range, text)
FixItHint(modification, range, text) ==
  /\ construct("FixItHint", modification, range, text)

\* FixItHint.create(range)
create(range) ==
  /\ construct("create", "DEFAULT", range, Undefined)

\* FixItHint.createInsertion(index, text)
createInsertion(index, text) ==
  /\ construct("createInsertion", "INSERT", [index |-> index, length |-> 1], Some(text))

\* FixItHint.createReplacement(range, text)
createReplacement(range, text) ==
  /\ construct("createReplacement", "REPLACE", range, Some(text))

\* FixItHint.createRemoval(range)
createRemoval(range) ==
  /\ construct("createRemoval", "REMOVE", range, Undefined)

HintOps == {"FixItHint", "create", "createInsertion", "createReplacement", "createRemoval"}

(***************************************************************************)
(* DiagnosticsMessage: construction and mutators                           *)
(***************************************************************************)
\* DiagnosticsLevelEnum
Ignored == 0
Note == 1
Remark == 2
Warning == 3
Error == 4
Fatal == 5

DiagnosticsLevelEnum == {Ignored, Note, Remark, Warning, Error, Fatal}

\* message.linenumber ?? 1
effectiveLine(m) == OrElse(m.linenumber, 1)

\* message.column ?? 1
effectiveColumn(m) == OrElse(m.column, 1)

\* setFile's throw conditions
setFileThrows(f) == HasLineBreak(f) \/ HasSpace(f)

\* setMessage's throw conditions
setMessageThrowsNoColumnCheck(m) ==
  \/ HasLineBreak(m.text)
  \/ effectiveLine(m) <= 0

setMessageThrows(m) ==
  \/ HasLineBreak(m.text)
  \/ effectiveColumn(m) <= 0
  \/ effectiveLine(m) <= 0

\* lines.split(/\r?\n/), from position i with the piece `cur` under construction
RECURSIVE SplitFrom(_, _, _)
SplitFrom(s, i, cur) ==
  IF i > Len(s) THEN <<cur>>
  ELSE IF s[i] = "\n" THEN <<cur>> \o SplitFrom(s, i + 1, <<>>)
  ELSE IF s[i] = "\r" /\ i < Len(s) /\ s[i + 1] = "\n" THEN <<cur>> \o SplitFrom(s, i + 2, <<>>)
  ELSE SplitFrom(s, i + 1, Append(cur, s[i]))

Split(s) == SplitFrom(s, 1, <<>>)

\* the `lines` argument of setContext is [form |-> "array", arr |-> <<line, ...>>]
\* or [form |-> "string", str |-> line]; lines.length is the number of elements
\* of an array and the number of characters of a string
length(lines) == IF lines.form = "array" THEN Len(lines.arr) ELSE Len(lines.str)

\* setContext's throw conditions
setContextThrows(m, linenumber, lines) ==
  \/ effectiveLine(m) < linenumber
  \/ effectiveLine(m) > linenumber + length(lines) - 1
  \/ linenumber <= 0

\* Array.isArray(lines) ? lines : lines.split(/\r?\n/)
contextLines(lines) == IF lines.form = "array" THEN lines.arr ELSE Split(lines.str)

hintFrame == <<hint>>

\* the three setters of the constructor; a throw leaves no object behind
construction(op, data) ==
  /\ ~constructed
  /\ IF setFileThrows(data.file) \/ setMessageThrows(data.message)
     THEN /\ last' = [op |-> op, ok |-> FALSE, level |-> data.level]
          /\ UNCHANGED <<constructed, file, level, message>>
     ELSE /\ last' = [op |-> op, ok |-> TRUE, level |-> data.level]
          /\ constructed' = TRUE
          /\ file' = data.file
          /\ level' = OrElse(data.level, Note)
          /\ message' = data.message
  /\ ret' = Undefined
  /\ UNCHANGED <<context, fixitHints, hint, chalkLevel>>
  /\ UNCHANGED extractFrame

\* new DiagnosticsMessage(data)
DiagnosticsMessage(data) ==
  /\ construction("DiagnosticsMessage", data)

\* DiagnosticsMessage.createError(file, message)
createError(f, m) ==
  /\ construction("createError", [file |-> f, level |-> Some(Error), message |-> m])

\* DiagnosticsMessage.createWarning(file, message)
createWarning(f, m) ==
  /\ construction("createWarning", [file |-> f, level |-> Some(Warning), message |-> m])

setFile(f) ==
  /\ constructed
  /\ IF setFileThrows(f)
     THEN /\ last' = [op |-> "setFile", ok |-> FALSE]
          /\ UNCHANGED file
     ELSE /\ last' = [op |-> "setFile", ok |-> TRUE]
          /\ file' = f
  /\ ret' = Undefined
  /\ UNCHANGED <<constructed, level, message, context, fixitHints, hint, chalkLevel>>
  /\ UNCHANGED extractFrame

setLevel(l) ==
  /\ constructed
  /\ level' = l
  /\ last' = [op |-> "setLevel", ok |-> TRUE]
  /\ ret' = Undefined
  /\ UNCHANGED <<constructed, file, message, context, fixitHints, hint, chalkLevel>>
  /\ UNCHANGED extractFrame

setMessage(m) ==
  /\ constructed
  /\ IF setMessageThrows(m)
     THEN /\ last' = [op |-> "setMessage", ok |-> FALSE]
          /\ UNCHANGED message
     ELSE /\ last' = [op |-> "setMessage", ok |-> TRUE]
          /\ message' = m
  /\ ret' = Undefined
  /\ UNCHANGED <<constructed, file, level, context, fixitHints, hint, chalkLevel>>
  /\ UNCHANGED extractFrame

setContext(linenumber, lines) ==
  /\ constructed
  /\ IF setContextThrows(message, linenumber, lines)
     THEN /\ last' = [op |-> "setContext", ok |-> FALSE, form |-> lines.form]
          /\ UNCHANGED context
     ELSE /\ last' = [op |-> "setContext", ok |-> TRUE, form |-> lines.form]
          /\ context' = Some([linenumber |-> linenumber, lines |-> contextLines(lines)])
  /\ ret' = Undefined
  /\ UNCHANGED <<constructed, file, level, message, fixitHints, hint, chalkLevel>>
  /\ UNCHANGED extractFrame

(***************************************************************************)
(* Rendering: chalk styles, toString                                       *)
(***************************************************************************)
\* chalk's escape sequences, each one element of a rendered string
StyleCodes ==
  {"ESC[1m", "ESC[22m", "ESC[31m", "ESC[32m", "ESC[33m", "ESC[34m", "ESC[90m", "ESC[97m", "ESC[39m"}

\* a chalk style is the pair of its opening and closing sequences
bold == [open |-> <<"ESC[1m">>, close |-> <<"ESC[22m">>]
red == [open |-> <<"ESC[31m">>, close |-> <<"ESC[39m">>]
green == [open |-> <<"ESC[32m">>, close |-> <<"ESC[39m">>]
yellow == [open |-> <<"ESC[33m">>, close |-> <<"ESC[39m">>]
boldGray == [open |-> <<"ESC[1m", "ESC[90m">>, close |-> <<"ESC[39m", "ESC[22m">>]
boldBlue == [open |-> <<"ESC[1m", "ESC[34m">>, close |-> <<"ESC[39m", "ESC[22m">>]
boldYellow == [open |-> <<"ESC[1m", "ESC[33m">>, close |-> <<"ESC[39m", "ESC[22m">>]
boldRed == [open |-> <<"ESC[1m", "ESC[31m">>, close |-> <<"ESC[39m", "ESC[22m">>]
boldGreen == [open |-> <<"ESC[1m", "ESC[32m">>, close |-> <<"ESC[39m", "ESC[22m">>]
boldWhiteBright == [open |-> <<"ESC[1m", "ESC[97m">>, close |-> <<"ESC[39m", "ESC[22m">>]

\* style(string): chalk returns the string itself when colours are off or the
\* string is empty
chalk(style, str, cl) ==
  IF cl = 0 \/ str = <<>> THEN str ELSE style.open \o str \o style.close

\* str.replace(/\x1b\[[0-9;]*m/g, "")
IsText(c) == c \notin StyleCodes

unchalk(str) == SelectSeq(str, IsText)

DiagnosticsLevelConfiguration ==
  [l \in DiagnosticsLevelEnum |->
     CASE l = Ignored -> [text |-> <<"i", "g", "n", "o", "r", "e", "d">>, color |-> boldGray]
       [] l = Note -> [text |-> <<"n", "o", "t", "e">>, color |-> boldBlue]
       [] l = Remark -> [text |-> <<"r", "e", "m", "a", "r", "k">>, color |-> boldBlue]
       [] l = Warning -> [text |-> <<"w", "a", "r", "n", "i", "n", "g">>, color |-> boldYellow]
       [] l = Error -> [text |-> <<"e", "r", "r", "o", "r">>, color |-> boldRed]
       [] l = Fatal -> [text |-> <<"f", "a", "t", "a", "l">>, color |-> boldRed]]

ModificationColorCodes ==
  [m \in ModificationType |->
     CASE m = "DEFAULT" -> red
       [] m = "INSERT" -> green
       [] m = "REMOVE" -> red
       [] m = "REPLACE" -> yellow]

DigitChars == <<"0", "1", "2", "3", "4", "5", "6", "7", "8", "9">>

\* Number.prototype.toString() of an integer
RECURSIVE NatToString(_)
NatToString(n) ==
  IF n < 10 THEN <<DigitChars[n + 1]>>
  ELSE NatToString(n \div 10) \o <<DigitChars[(n % 10) + 1]>>

NumberToString(n) == IF n < 0 THEN <<"-">> \o NatToString(-n) ELSE NatToString(n)

\* " ".repeat(n)
Spaces(n) == [i \in 1..n |-> " "]

\* str.padStart(width, " ")
padStart(str, width) == Spaces(width - Len(str)) \o str

\* str.trimEnd()
RECURSIVE trimEnd(_)
trimEnd(str) ==
  IF str # <<>> /\ str[Len(str)] \in {" ", "\n", "\r", "\t"}
  THEN trimEnd(SubSeq(str, 1, Len(str) - 1))
  ELSE str

\* the concatenation of a sequence of strings
RECURSIVE Concat(_)
Concat(strs) == IF strs = <<>> THEN <<>> ELSE Head(strs) \o Concat(Tail(strs))

\* strs.join("\n")
RECURSIVE join(_)
join(strs) ==
  IF strs = <<>> THEN <<>>
  ELSE IF Len(strs) = 1 THEN strs[1]
  ELSE strs[1] \o <<"\n">> \o join(Tail(strs))

\* Array.prototype.find: the first element among those at the positions
\* `matching` (the positions that satisfy the test), as an optional
find(hints, matching) ==
  IF matching = {} THEN Undefined
  ELSE Some(hints[CHOOSE k \in matching : \A j \in matching : k <= j])

\* hint.text?.length ?? 0
textLength(h) == IF h.text = Undefined THEN 0 ELSE Len(h.text[1])

\* the width of the hint rows taken from the last hint alone
hintRowWidthLastHintOnly(m, hints) ==
  IF Len(hints) > 0
  THEN hints[Len(hints)].range.index + hints[Len(hints)].range.length
  ELSE Len(m.text)

\* getFixitHintsString: the width of the hint rows
hintRowWidth(m, hints) ==
  IF Len(hints) > 0
  THEN Max(hints[Len(hints)].range.index + hints[Len(hints)].range.length, Len(m.text))
  ELSE Len(m.text)

\* getFixitHintsString: the (styled) character of the caret row at column i
caretAt(m, hints, cl, i) ==
  LET Covers(h) == i >= h.range.index /\ i < h.range.index + h.range.length
      fixit == find(hints, {k \in 1..Len(hints) : Covers(hints[k])})
      char == IF m.column = Some(i) /\ (fixit = Undefined \/ fixit[1].modification # "DEFAULT")
              THEN "^"
              ELSE IF fixit # Undefined THEN "~" ELSE " "
      color == IF fixit # Undefined THEN ModificationColorCodes[fixit[1].modification] ELSE boldGreen
  IN IF char # " " THEN chalk(color, <<char>>, cl) ELSE <<char>>

\* text.charAt(k), 0-based; the empty string outside the text
charAt(text, k) == IF k >= 0 /\ k < Len(text) THEN <<text[k + 1]>> ELSE <<>>

\* getFixitHintsString: the character(s) of the hint row at column i
hintAt(hints, i) ==
  LET Covers(h) == i >= h.range.index /\ i < h.range.index + textLength(h)
      fixitHint == find(hints, {k \in 1..Len(hints) : Covers(hints[k])})
  IN IF fixitHint # Undefined /\ fixitHint[1].text # Undefined
     THEN charAt(fixitHint[1].text[1], i - fixitHint[1].range.index)
     ELSE <<" ">>

getFixitHintsString(prefix, m, hints, cl) ==
  IF m.column = Undefined THEN <<>>
  ELSE LET maxWidth == hintRowWidth(m, hints)
           caretLine == Concat([i \in 1..maxWidth |-> caretAt(m, hints, cl, i)])
           hintLine == Concat([i \in 1..maxWidth |-> hintAt(hints, i)])
       IN IF Len(trimEnd(hintLine)) = 0
          THEN <<prefix \o trimEnd(caretLine)>>
          ELSE <<prefix \o trimEnd(caretLine), prefix \o trimEnd(hintLine)>>

seperator == <<" ", "|", " ">>

\* getContextString: the width of the line-number gutter
gutterWidth(ctx) == Len(NumberToString(ctx[1].linenumber + Len(ctx[1].lines)))

\* getContextString: the rows rendered for context line i (0-based)
contextRows(m, ctx, hints, cl, i) ==
  LET maxWidth == gutterWidth(ctx)
      isContextLine == m.linenumber = Some(ctx[1].linenumber + i)
      lineColor == IF isContextLine THEN boldWhiteBright ELSE boldGray
      line == ctx[1].lines[i + 1]
      linenumber == padStart(NumberToString(ctx[1].linenumber + i), maxWidth)
  IN <<chalk(lineColor, linenumber \o seperator \o line, cl)>>
       \o (IF isContextLine
           THEN getFixitHintsString(Spaces(maxWidth) \o seperator, m, hints, cl)
           ELSE <<>>)

getContextString(m, ctx, hints, cl) ==
  IF ctx = Undefined THEN <<>>
  ELSE << <<>> >> \o Concat([k \in 1..Len(ctx[1].lines) |-> contextRows(m, ctx, hints, cl, k - 1)])

\* toString: the header row, with the line and column in the other order
headerColumnFirst(f, lv, m, cl) ==
  chalk(bold, f \o <<":">> \o NumberToString(effectiveColumn(m)) \o <<":">>
                \o NumberToString(effectiveLine(m)) \o <<":", " ">>, cl)
    \o chalk(DiagnosticsLevelConfiguration[lv].color,
             DiagnosticsLevelConfiguration[lv].text \o <<":", " ">>, cl)
    \o chalk(bold, m.text, cl)

\* toString: the header row
header(f, lv, m, cl) ==
  chalk(bold, f \o <<":">> \o NumberToString(effectiveLine(m)) \o <<":">>
                \o NumberToString(effectiveColumn(m)) \o <<":", " ">>, cl)
    \o chalk(DiagnosticsLevelConfiguration[lv].color,
             DiagnosticsLevelConfiguration[lv].text \o <<":", " ">>, cl)
    \o chalk(bold, m.text, cl)

\* the string toString returns
toStringValue(f, lv, m, ctx, hints, cl) ==
  join(<<header(f, lv, m, cl)>> \o getContextString(m, ctx, hints, cl))

\* toString finding the last hint by reversing the hints of the message in place
toStringReversingHints ==
  /\ constructed
  /\ ret' = Some(toStringValue(file, level, message, context, fixitHints, chalkLevel))
  /\ last' = [op |-> "toString", ok |-> TRUE]
  /\ fixitHints' = [k \in 1..Len(fixitHints) |-> fixitHints[Len(fixitHints) + 1 - k]]
  /\ UNCHANGED <<constructed, file, level, message, context, hint, chalkLevel>>
  /\ UNCHANGED extractFrame

toString ==
  /\ constructed
  /\ ret' = Some(toStringValue(file, level, message, context, fixitHints, chalkLevel))
  /\ last' = [op |-> "toString", ok |-> TRUE]
  /\ UNCHANGED <<constructed, file, level, message, context, fixitHints, hint, chalkLevel>>
  /\ UNCHANGED extractFrame

(***************************************************************************)
(* Fix-it hints of a message: addFixitHint, applyFixitHints, createPatch   *)
(***************************************************************************)
\* the overlap test of addFixitHint
overlaps(hints, h) ==
  \E k \in 1..Len(hints) :
    /\ hints[k].range.index <= h.range.index
    /\ h.range.index <= hints[k].range.index + hints[k].range.length

\* the place a stable sort by range.index gives to h among the sorted hints
RECURSIVE insertSorted(_, _)
insertSorted(sorted, h) ==
  IF sorted = <<>> THEN <<h>>
  ELSE IF sorted[Len(sorted)].range.index <= h.range.index THEN Append(sorted, h)
  ELSE Append(insertSorted(SubSeq(sorted, 1, Len(sorted) - 1), h), sorted[Len(sorted)])

\* hints.sort((a, b) => a.range.index - b.range.index), a stable sort
RECURSIVE sort(_)
sort(hints) ==
  IF hints = <<>> THEN <<>>
  ELSE insertSorted(sort(SubSeq(hints, 1, Len(hints) - 1)), hints[Len(hints)])

\* the tests of addFixitHint without the test for a context
addFixitHintThrowsNoContextCheck(ctx, hints, h) == overlaps(hints, h)

\* addFixitHint throws without a context and on an overlapping hint
addFixitHintThrows(ctx, hints, h) == ctx = Undefined \/ overlaps(hints, h)

\* the hints after addFixitHint(h), with the push placed before the tests
hintsAfterAddPushFirst(ctx, hints, h) == sort(Append(hints, h))

\* the hints after addFixitHint(h)
hintsAfterAdd(ctx, hints, h) ==
  IF addFixitHintThrows(ctx, hints, h) THEN hints ELSE sort(Append(hints, h))

addFixitHint(h) ==
  /\ constructed
  /\ Len(fixitHints) < MaxHints \/ addFixitHintThrows(context, fixitHints, h)
  /\ fixitHints' = hintsAfterAdd(context, fixitHints, h)
  /\ last' = [op |-> "addFixitHint", ok |-> ~addFixitHintThrows(context, fixitHints, h)]
  /\ ret' = Undefined
  /\ UNCHANGED <<constructed, file, level, message, context, hint, chalkLevel>>
  /\ UNCHANGED extractFrame

\* context.lines[(message.linenumber ?? 1) - context.linenumber], undefined
\* outside the array
contextLine(m, ctx) ==
  LET i == effectiveLine(m) - ctx[1].linenumber
  IN IF i >= 0 /\ i < Len(ctx[1].lines) THEN Some(ctx[1].lines[i + 1]) ELSE Undefined

\* the text a hint splices in; INSERT and REPLACE hints always carry one
hintText(h) == IF h.text = Undefined THEN <<>> ELSE h.text[1]

\* one round of the switch of applyFixitHints, INSERT splicing after the
\* character at range.index
editAfterIndex(result, fixit) ==
  CASE fixit.modification = "INSERT" ->
         Slice(result, 0, fixit.range.index) \o hintText(fixit)
           \o SliceFrom(result, fixit.range.index)
    [] fixit.modification = "REMOVE" ->
         Slice(result, 0, fixit.range.index - 1)
           \o SliceFrom(result, fixit.range.index - 1 + fixit.range.length)
    [] fixit.modification = "REPLACE" ->
         Slice(result, 0, fixit.range.index - 1) \o hintText(fixit)
           \o SliceFrom(result, fixit.range.index - 1 + fixit.range.length)
    [] OTHER -> result

\* one round of the switch of applyFixitHints
edit(result, fixit) ==
  CASE fixit.modification = "INSERT" ->
         Slice(result, 0, fixit.range.index - 1) \o hintText(fixit)
           \o SliceFrom(result, fixit.range.index - 1)
    [] fixit.modification = "REMOVE" ->
         Slice(result, 0, fixit.range.index - 1)
           \o SliceFrom(result, fixit.range.index - 1 + fixit.range.length)
    [] fixit.modification = "REPLACE" ->
         Slice(result, 0, fixit.range.index - 1) \o hintText(fixit)
           \o SliceFrom(result, fixit.range.index - 1 + fixit.range.length)
    [] OTHER -> result

\* this.fixitHints.forEach(...) of applyFixitHints, from hint k on
RECURSIVE applyFrom(_, _, _)
applyFrom(result, hints, k) ==
  IF k > Len(hints) THEN result ELSE applyFrom(edit(result, hints[k]), hints, k + 1)

\* slicing the undefined line (message line outside the context) is a TypeError
applyFixitHintsThrows(m, ctx, hints) ==
  \/ ctx = Undefined
  \/ /\ contextLine(m, ctx) = Undefined
     /\ \E k \in 1..Len(hints) : hints[k].modification # "DEFAULT"

\* the value applyFixitHints returns when it does not throw
applyFixitHintsValue(m, ctx, hints) ==
  IF contextLine(m, ctx) = Undefined THEN Undefined
  ELSE Some(applyFrom(contextLine(m, ctx)[1], hints, 1))

applyFixitHints ==
  /\ constructed
  /\ IF applyFixitHintsThrows(message, context, fixitHints)
     THEN /\ last' = [op |-> "applyFixitHints", ok |-> FALSE]
          /\ ret' = Undefined
     ELSE /\ last' = [op |-> "applyFixitHints", ok |-> TRUE]
          /\ ret' = applyFixitHintsValue(message, context, fixitHints)
  /\ UNCHANGED <<constructed, file, level, message, context, fixitHints, hint, chalkLevel>>
  /\ UNCHANGED extractFrame

\* FixItHint.apply(str): the edit of one hint at its (shifted) range
apply(fixit, str) ==
  CASE fixit.modification = "INSERT" ->
         Slice(str, 0, fixit.range.index - 1) \o hintText(fixit)
           \o SliceFrom(str, fixit.range.index - 1)
    [] fixit.modification = "REMOVE" ->
         Slice(str, 0, fixit.range.index - 1)
           \o SliceFrom(str, fixit.range.index - 1 + fixit.range.length)
    [] fixit.modification = "REPLACE" ->
         Slice(str, 0, fixit.range.index - 1) \o hintText(fixit)
           \o SliceFrom(str, fixit.range.index - 1 + fixit.range.length)
    [] OTHER -> str

\* createPatch: the change of `offset` made by one hint
offsetDelta(fixit) ==
  CASE fixit.modification = "INSERT" -> textLength(fixit)
    [] fixit.modification = "REMOVE" -> -fixit.range.length
    [] fixit.modification = "REPLACE" ->
         (IF fixit.text = Undefined THEN fixit.range.length ELSE Len(fixit.text[1]))
           - fixit.range.length
    [] OTHER -> 0

\* createPatch: fixitHints.forEach(...) from hint k on; the hints are the
\* objects of the message (the array is copied, its elements are not), so the
\* shifted range.index stays in the message
RECURSIVE patchFrom(_, _, _, _)
patchFrom(hints, k, expected, offset) ==
  IF k > Len(hints) THEN [hints |-> hints, expected |-> expected]
  ELSE LET fixit == [hints[k] EXCEPT !.range.index = @ + offset]
       IN patchFrom([hints EXCEPT ![k] = fixit], k + 1, apply(fixit, expected),
                    offset + offsetDelta(fixit))

createPatchThrows(m, ctx, hints) ==
  \/ ctx = Undefined
  \/ /\ contextLine(m, ctx) = Undefined
     /\ \E k \in 1..Len(hints) : hints[k].modification # "DEFAULT"

\* createPatch: the rows of the hunk for context line `line`
hunkRows(line, i, m, ctx, original, expected) ==
  IF Some(line) = original /\ original # expected
  THEN << <<"-">> \o line, <<"+">> \o expected[1] >>
  ELSE << <<" ">> \o line >>

\* the two header rows and the hunk header; the two dates are one element each
patchHeader(f, ctx) ==
  << <<"-", "-", "-", " ">> \o f \o <<" ", "MTIME">>,
     <<"+", "+", "+", " ">> \o f \o <<".", "f", "i", "x", " ", "NOW">>,
     <<"@", "@", " ", "-">> \o NumberToString(ctx[1].linenumber) \o <<",">>
       \o NumberToString(Len(ctx[1].lines)) \o <<" ", "+">>
       \o NumberToString(ctx[1].linenumber) \o <<",">>
       \o NumberToString(Len(ctx[1].lines)) \o <<" ", "@", "@">> >>

\* the string createPatch returns when it does not throw
createPatchValue(f, m, ctx, hints) ==
  LET original == contextLine(m, ctx)
      expected == IF original = Undefined THEN Undefined
                  ELSE Some(patchFrom(hints, 1, original[1], 0).expected)
  IN join(patchHeader(f, ctx)
          \o Concat([i \in 1..Len(ctx[1].lines) |->
                       hunkRows(ctx[1].lines[i], i, m, ctx, original, expected)]))

createPatch ==
  /\ constructed
  /\ IF createPatchThrows(message, context, fixitHints)
     THEN /\ last' = [op |-> "createPatch", ok |-> FALSE]
          /\ ret' = Undefined
          /\ UNCHANGED fixitHints
     ELSE /\ last' = [op |-> "createPatch", ok |-> TRUE]
          /\ ret' = Some(createPatchValue(file, message, context, fixitHints))
          /\ fixitHints' = patchFrom(fixitHints, 1, <<>>, 0).hints
          /\ \A k \in 1..Len(fixitHints') :
               /\ fixitHints'[k].range.index <= MaxShift
               /\ fixitHints'[k].range.index >= -MaxShift
  /\ UNCHANGED <<constructed, file, level, message, context, hint, chalkLevel>>
  /\ UNCHANGED extractFrame

\* DiagnosticsMessage.getFixitHints()
getFixitHints == fixitHints

\* str.split(" ")
RECURSIVE SplitSpaceFrom(_, _, _)
SplitSpaceFrom(s, i, cur) ==
  IF i > Len(s) THEN <<cur>>
  ELSE IF s[i] = " " THEN <<cur>> \o SplitSpaceFrom(s, i + 1, <<>>)
  ELSE SplitSpaceFrom(s, i + 1, Append(cur, s[i]))

\* applyPatch: the file name the patch names, patch.split(/\r?\n/)[0].split(" ")[1]
patchFilename(patch) ==
  LET words == SplitSpaceFrom(Split(patch)[1], 1, <<>>)
  IN IF Len(words) >= 2 THEN Some(words[2]) ELSE Undefined

\* the rows of the hunk of a patch made by createPatch: all rows after the
\* two file rows and the @@ row
hunkOf(patch) == LET rows == Split(patch) IN SubSeq(rows, 4, Len(rows))

\* the rows of a hunk that start with one of the marks, without the mark
sideOf(hunk, marks) ==
  LET rows == SelectSeq(hunk, LAMBDA row : row # <<>> /\ row[1] \in marks)
  IN [k \in 1..Len(rows) |-> Tail(rows[k])]

\* diff.applyPatch(source, patch) of the diff library for a patch of one hunk
\* that spans the whole source: the hunk fits when its kept and removed rows
\* are the lines of the source, and the result is its kept and added rows;
\* Undefined stands for the result `false`
diffApplyPatch(source, patch) ==
  IF sideOf(hunkOf(patch), {" ", "-"}) = Split(source)
  THEN Some(join(sideOf(hunkOf(patch), {" ", "+"})))
  ELSE Undefined

\* applyPatch(patch) when the file the patch names holds `source`
applyPatchThrows(source, patch) == diffApplyPatch(source, patch) = Undefined

\* applyPatch(patch) on the patch that createPatch has just returned; the
\* file the patch names holds the context window of the message (window),
\* or other text
applyPatch(window) ==
  /\ constructed
  /\ last.op = "createPatch"
  /\ last.ok
  /\ patchFilename(ret[1]) = Some(file)
  /\ LET source == IF window THEN join(context[1].lines)
                   ELSE <<"z", "\n">> \o join(context[1].lines)
     IN /\ last' = [op |-> "applyPatch", ok |-> ~applyPatchThrows(source, ret[1]),
                    window |-> window]
        /\ ret' = diffApplyPatch(source, ret[1])
  /\ UNCHANGED <<constructed, file, level, message, context, fixitHints, hint, chalkLevel>>
  /\ UNCHANGED extractFrame

(***************************************************************************)
(* Extractors: the raw line scanner and the SARIF reader                   *)
(***************************************************************************)
\* the variables of a message object, none of which an extractor touches
objectFrame ==
  <<constructed, file, level, message, context, fixitHints, hint, last, ret, chalkLevel>>

\* \s of a regular expression, and the characters trimStart removes
Whitespace == {" ", "\t"}

Digits == {DigitChars[k] : k \in 1..10}

\* \w of a regular expression
WordChars ==
  {"a", "b", "c", "d", "e", "f", "g", "h", "i", "j", "k", "l", "m", "n", "o", "p", "q",
   "r", "s", "t", "u", "v", "w", "x", "y", "z", "_"} \cup Digits

\* [\w,-.]: a word character or one of the characters from "," to "."
FileChars == WordChars \cup {",", "-", "."}

\* (error|warning|note)
MessageTypes == {<<"e", "r", "r", "o", "r">>, <<"w", "a", "r", "n", "i", "n", "g">>, <<"n", "o", "t", "e">>}

\* the first position from i on that holds no character of `set`
RECURSIVE runEnd(_, _, _)
runEnd(line, i, set) ==
  IF i <= Len(line) /\ line[i] \in set THEN runEnd(line, i + 1, set) ELSE i

\* `word` stands in `line` at position i
startsWith(line, i, word) ==
  /\ i >= 1
  /\ i + Len(word) - 1 <= Len(line)
  /\ SubSeq(line, i, i + Len(word) - 1) = word

\* the match of LLVM_EXPRESSIVE_DIAGNOSTICS_REGEX whose file group starts at
\* position f; every group but the last is a longest run, closed by its
\* separator, and the message is the rest of the line
matchAt(line, f) ==
  LET e1 == runEnd(line, f, FileChars)
      e2 == runEnd(line, e1 + 1, Digits)
      e3 == runEnd(line, e2 + 1, Digits)
      types == {t \in MessageTypes : startsWith(line, e3 + 2, t)}
  IN IF /\ f >= 1
        /\ e1 > f
        /\ startsWith(line, e1, <<":">>)
        /\ e2 > e1 + 1
        /\ startsWith(line, e2, <<":">>)
        /\ e3 > e2 + 1
        /\ startsWith(line, e3, <<":", " ">>)
        /\ types # {}
        /\ \E t \in types : startsWith(line, e3 + 2 + Len(t), <<":", " ">>)
     THEN LET t == CHOOSE t \in types : TRUE
          IN Some([file |-> SubSeq(line, f, e1 - 1),
                   lineNumber |-> SubSeq(line, e1 + 1, e2 - 1),
                   columnNumber |-> SubSeq(line, e2 + 1, e3 - 1),
                   messageType |-> t,
                   message |-> SubSeq(line, e3 + 4 + Len(t), Len(line))])
     ELSE Undefined

\* LLVM_EXPRESSIVE_DIAGNOSTICS_REGEX.exec(line): the pattern is not anchored,
\* so the match is the one that starts first in the line
exec(line) ==
  LET starts == {f \in 1..Len(line) : matchAt(line, f) # Undefined}
  IN IF starts = {} THEN Undefined
     ELSE matchAt(line, CHOOSE f \in starts : \A g \in starts : f <= g)

\* parseInt of a run of digits
RECURSIVE parseInt(_)
parseInt(digits) ==
  IF digits = <<>> THEN 0
  ELSE 10 * parseInt(SubSeq(digits, 1, Len(digits) - 1))
         + (CHOOSE d \in 0..9 : DigitChars[d + 1] = digits[Len(digits)])

\* line.length - line.trimStart().length
leadingWhitespace(line) == runEnd(line, 1, Whitespace) - 1

\* line.substring(start)
substring(line, start) ==
  IF start >= Len(line) THEN <<>> ELSE SubSeq(line, start + 1, Len(line))

\* o?.field for an optional object o whose field is optional itself
Chain(o, field) == IF o = Undefined THEN Undefined ELSE o[1][field]

\* getDiagnosticsLevelFromString with the test for "warning" left out
getDiagnosticsLevelFromStringErrorOnly(value) ==
  IF value = <<"e", "r", "r", "o", "r">> THEN Error ELSE Note

getDiagnosticsLevelFromString(value) ==
  IF value = <<"e", "r", "r", "o", "r">> THEN Error
  ELSE IF value = <<"w", "a", "r", "n", "i", "n", "g">> THEN Warning
  ELSE Note

\* new DiagnosticsMessage(data) as a value: Undefined when the constructor throws
newMessage(data) ==
  IF setFileThrows(data.file) \/ setMessageThrows(data.message) THEN Undefined
  ELSE Some([file |-> data.file, level |-> OrElse(data.level, Note),
             message |-> data.message, context |-> Undefined])

\* msg.setContext(linenumber, lines) as a value: Undefined when setContext throws
withContext(msg, linenumber, lines) ==
  IF setContextThrows(msg.message, linenumber, lines) THEN Undefined
  ELSE Some([msg EXCEPT !.context =
               Some([linenumber |-> linenumber, lines |-> contextLines(lines)])])

\* extractRaw: the body of the loop for the next line of the reader of
\* generator g, `match` being what the regular expression found in the line
afterLine(g, match) ==
  LET line == Head(g.lineReader)
      read == [g EXCEPT !.lineReader = Tail(g.lineReader)]
  IN IF match # Undefined
     THEN LET msg == newMessage(
                [file |-> match[1].file,
                 message |-> [text |-> match[1].message,
                              linenumber |-> Some(parseInt(match[1].lineNumber)),
                              column |-> Some(parseInt(match[1].columnNumber))],
                 level |-> Some(getDiagnosticsLevelFromString(match[1].messageType))])
          IN IF msg = Undefined
             THEN [read EXCEPT !.status = "threw"]
             ELSE [read EXCEPT !.currentMessage = msg,
                               !.matchIndex = leadingWhitespace(line)]
     ELSE IF g.currentMessage # Undefined
     THEN LET lineNumber == g.currentMessage[1].message.linenumber
              msg == IF lineNumber # Undefined
                     THEN withContext(g.currentMessage[1], lineNumber[1],
                                      [form |-> "string",
                                       str |-> substring(line, g.matchIndex)])
                     ELSE g.currentMessage
          IN IF msg = Undefined
             THEN [read EXCEPT !.status = "threw"]
             ELSE [read EXCEPT !.yielded = Append(@, msg[1]),
                               !.currentMessage = Undefined]
     ELSE read

\* extractRaw: what follows the loop, in generator g
afterEnd(g) ==
  [g EXCEPT !.status = "done",
            !.yielded = IF g.currentMessage # Undefined
                        THEN Append(@, g.currentMessage[1]) ELSE @]

extractRawLine ==
  /\ raw.status = "running"
  /\ raw.lineReader # <<>>
  /\ raw' = afterLine(raw, exec(Head(raw.lineReader)))
  /\ UNCHANGED <<objectFrame, sarif, expressive, extractions>>

\* extractRaw at the end of the input, with the pending message forgotten
extractRawEndDropsPending ==
  /\ raw.status = "running"
  /\ raw.lineReader = <<>>
  /\ raw' = [raw EXCEPT !.status = "done"]
  /\ UNCHANGED <<objectFrame, sarif, expressive, extractions>>

\* extractRaw: the end of the input
extractRawEnd ==
  /\ raw.status = "running"
  /\ raw.lineReader = <<>>
  /\ raw' = afterEnd(raw)
  /\ UNCHANGED <<objectFrame, sarif, expressive, extractions>>

\* new RegExp(pattern, "g"): the regular expression with the global flag
RegexGlobalFlagSet == TRUE

\* new RegExp(pattern): the regular expression has no flags, so it is not global
RegexGlobal == FALSE

\* LLVM_EXPRESSIVE_DIAGNOSTICS_REGEX.exec(line) on the one regular expression
\* object of the module, whose lastIndex is `lastIndex`: a global expression
\* searches from lastIndex on and leaves the end of the match (the end of the
\* line, the message being the rest of the line) or 0 in it; any other
\* searches from the start and leaves lastIndex alone
regexExec(line, lastIndex) ==
  IF RegexGlobal
  THEN LET starts == {f \in (lastIndex + 1)..Len(line) : matchAt(line, f) # Undefined}
       IN IF starts = {} THEN [match |-> Undefined, lastIndex |-> 0]
          ELSE [match |-> matchAt(line, CHOOSE f \in starts : \A g \in starts : f <= g),
                lastIndex |-> Len(line)]
  ELSE [match |-> exec(line), lastIndex |-> lastIndex]

\* extractRaw(filePath): the generator before its first step, over the lines
\* of the file
startRaw(lines) ==
  [lineReader |-> lines, currentMessage |-> Undefined, matchIndex |-> 0,
   yielded |-> <<>>, status |-> "running"]

\* one of the extractRaw calls running side by side: the body of its loop for
\* the next line of its reader
extractRawLineOf(i) ==
  /\ i \in 1..Len(extractions.iterators)
  /\ extractions.iterators[i].generator.status = "running"
  /\ extractions.iterators[i].generator.lineReader # <<>>
  /\ LET g == extractions.iterators[i].generator
         found == regexExec(Head(g.lineReader), extractions.lastIndex)
     IN extractions' = [extractions EXCEPT
                          !.iterators[i].generator = afterLine(g, found.match),
                          !.lastIndex = found.lastIndex]
  /\ UNCHANGED <<objectFrame, raw, sarif, expressive>>

\* one of the extractRaw calls running side by side: the end of its input
extractRawEndOf(i) ==
  /\ i \in 1..Len(extractions.iterators)
  /\ extractions.iterators[i].generator.status = "running"
  /\ extractions.iterators[i].generator.lineReader = <<>>
  /\ extractions' = [extractions EXCEPT !.iterators[i].generator = afterEnd(@)]
  /\ UNCHANGED <<objectFrame, raw, sarif, expressive>>

\* extractFromSarif: the run the generator reads, the last one by default
selectedRun(g) == IF g.run = Undefined THEN Len(g.log) - 1 ELSE g.run[1]

\* sarifObj.runs[run].results ?? []
resultsOf(g) == OrElse(g.log[selectedRun(g) + 1].results, <<>>)

\* result.locations ?? []
locationsOf(result) == OrElse(result.locations, <<>>)

\* extractFromSarif: the message made for one location of a result;
\* Undefined when the constructor or setContext throws
messageFor(result, location) ==
  LET region == Chain(location.physicalLocation, "region")
      line == OrElse(Chain(region, "startLine"), 1)
      column == OrElse(Chain(region, "startColumn"), 1)
      snippet == Chain(Chain(region, "snippet"), "text")
      msg == newMessage(
               [file |-> OrElse(Chain(Chain(location.physicalLocation, "artifactLocation"),
                                      "uri"), <<>>),
                message |-> [text |-> result.message.text[1],
                             linenumber |-> Some(line),
                             column |-> Some(column)],
                level |-> Some(getDiagnosticsLevelFromString(OrElse(result.level, <<"w", "a", "r", "n", "i", "n", "g">>)))])
  IN IF msg = Undefined \/ snippet = Undefined THEN msg
     ELSE withContext(msg[1], line, [form |-> "string", str |-> snippet[1]])

\* extractFromSarif: the body of the inner loop for the next location
extractFromSarifLocation ==
  /\ sarif.status = "running"
  /\ sarif.result <= Len(resultsOf(sarif))
  /\ sarif.location <= Len(locationsOf(resultsOf(sarif)[sarif.result]))
  /\ LET result == resultsOf(sarif)[sarif.result]
         location == locationsOf(result)[sarif.location]
         next == [sarif EXCEPT !.location = @ + 1]
     IN IF result.message.text = Undefined \/ location.physicalLocation = Undefined
        THEN sarif' = next
        ELSE IF messageFor(result, location) = Undefined
        THEN sarif' = [next EXCEPT !.status = "threw"]
        ELSE sarif' = [next EXCEPT !.yielded = Append(@, messageFor(result, location)[1])]
  /\ UNCHANGED <<objectFrame, raw, expressive, extractions>>

\* extractFromSarif: the outer loop moving to the next result
extractFromSarifResult ==
  /\ sarif.status = "running"
  /\ sarif.result <= Len(resultsOf(sarif))
  /\ sarif.location > Len(locationsOf(resultsOf(sarif)[sarif.result]))
  /\ sarif' = [sarif EXCEPT !.result = @ + 1, !.location = 1]
  /\ UNCHANGED <<objectFrame, raw, expressive, extractions>>

\* extractFromSarif: the end of the results
extractFromSarifEnd ==
  /\ sarif.status = "running"
  /\ sarif.result > Len(resultsOf(sarif))
  /\ sarif' = [sarif EXCEPT !.status = "done"]
  /\ UNCHANGED <<objectFrame, raw, expressive, extractions>>

(***************************************************************************)
(* The legacy ExpressiveMessage                                            *)
(***************************************************************************)
\* lines.split("\n")
RECURSIVE splitNewline(_, _, _)
splitNewline(str, i, cur) ==
  IF i > Len(str) THEN <<cur>>
  ELSE IF str[i] = "\n" THEN <<cur>> \o splitNewline(str, i + 1, <<>>)
  ELSE splitNewline(str, i + 1, Append(cur, str[i]))

\* the _context that context(lines, start) stores
legacyContext(lines, start) ==
  Some([index |-> start,
        lines |-> IF lines.form = "string" THEN splitNewline(lines.str, 1, <<>>)
                  ELSE lines.arr])

\* context(lines, start) throws
legacyContextThrows(start) == start < 1

\* new ExpressiveMessage(message): the fields are assigned, then context() is
\* called when a context is given; a throw leaves no object
ExpressiveMessage(data) ==
  /\ ~expressive.constructed
  /\ IF data = Undefined
     THEN expressive' = [expressive EXCEPT !.constructed = TRUE, !.op = "constructor",
                                           !.result = "none"]
     ELSE IF data[1].context # Undefined /\ legacyContextThrows(data[1].context[1].index)
     THEN expressive' = [expressive EXCEPT !.op = "constructor", !.result = "RangeError"]
     ELSE expressive' =
            [constructed |-> TRUE,
             id |-> Some(data[1].id),
             message |-> Some(data[1].message),
             lineNumber |-> OrElse(data[1].lineNumber, 1),
             context |-> IF data[1].context = Undefined THEN Undefined
                         ELSE legacyContext([form |-> "array",
                                             arr |-> data[1].context[1].lines],
                                            data[1].context[1].index),
             op |-> "constructor",
             result |-> "none"]
  /\ UNCHANGED <<objectFrame, raw, sarif, extractions>>

\* ExpressiveMessage.id(id)
ExpressiveId(id) ==
  /\ expressive.constructed
  /\ expressive' = [expressive EXCEPT !.id = Some(id), !.op = "id", !.result = "none"]
  /\ UNCHANGED <<objectFrame, raw, sarif, extractions>>

\* ExpressiveMessage.lineNumber(lineNumber)
ExpressiveLineNumber(lineNumber) ==
  /\ expressive.constructed
  /\ IF lineNumber <= 0
     THEN expressive' = [expressive EXCEPT !.op = "lineNumber", !.result = "RangeError"]
     ELSE expressive' = [expressive EXCEPT !.lineNumber = lineNumber, !.op = "lineNumber",
                                           !.result = "none"]
  /\ UNCHANGED <<objectFrame, raw, sarif, extractions>>

\* ExpressiveMessage.context(lines, start)
ExpressiveContext(lines, start) ==
  /\ expressive.constructed
  /\ IF legacyContextThrows(start)
     THEN expressive' = [expressive EXCEPT !.op = "context", !.result = "RangeError"]
     ELSE expressive' = [expressive EXCEPT !.context = legacyContext(lines, start),
                                           !.op = "context", !.result = "none"]
  /\ UNCHANGED <<objectFrame, raw, sarif, extractions>>

\* the outcome of ExpressiveMessage.toString(): the error thrown, or "text"
\* when the rendered message is returned
legacyToString(e) ==
  IF /\ e.context # Undefined
     /\ \/ e.lineNumber < e.context[1].index
        \/ e.lineNumber > e.context[1].index + Len(e.context[1].lines)
  THEN "RangeError"
  ELSE IF e.id = Undefined \/ e.message = Undefined THEN "Error"
  ELSE "text"

\* ExpressiveMessage.toString()
ExpressiveToString ==
  /\ expressive.constructed
  /\ expressive' = [expressive EXCEPT !.op = "toString", !.result = legacyToString(expressive)]
  /\ UNCHANGED <<objectFrame, raw, sarif, extractions>>

(***************************************************************************)
(* Inputs of the message operations                                        *)
(***************************************************************************)
FileInputs == {<<"a">>, <<"a", " ">>, <<"a", "\n">>, <<"\r", "\n">>, <<"\r">>}

MessageTexts == {<<>>, <<"x">>, <<"x", "\n">>}

LineInputs == {Undefined} \cup {Some(n) : n \in (-1)..MaxLine}

ColumnInputs == {Undefined} \cup {Some(n) : n \in (-1)..MaxColumn}

MessageInputs == [text : MessageTexts, linenumber : LineInputs, column : ColumnInputs]

LevelInputs == {Undefined} \cup {Some(l) : l \in DiagnosticsLevelEnum}

DataInputs == [file : FileInputs, level : LevelInputs, message : MessageInputs]

ContextArrays ==
  {<<>>, << <<"a", "b">> >>, << <<"a", "b">>, <<"c">> >>, << <<"a", "b">>, <<"a", "b">> >>}

ContextStrings ==
  {<<>>, <<"a", "b">>, <<"a", "\n", "b">>, <<"a", "\r", "\n", "b">>}

ContextInputs ==
  {[form |-> "array", arr |-> a] : a \in ContextArrays}
    \cup {[form |-> "string", str |-> t] : t \in ContextStrings}

ContextStarts == (-1)..MaxLine

(***************************************************************************)
(* Initial state: no message object, no hint value                         *)
(***************************************************************************)
Init ==
  /\ constructed = FALSE
  /\ file = <<>>
  /\ level = 1
  /\ message = [text |-> <<>>, linenumber |-> Undefined, column |-> Undefined]
  /\ context = Undefined
  /\ fixitHints = <<>>
  /\ hint = Undefined
  /\ last = [op |-> "none", ok |-> TRUE]
  /\ ret = Undefined
  /\ chalkLevel \in {0, 1}
  /\ raw = rawIdle
  /\ sarif = sarifIdle
  /\ expressive = expressiveNone
  /\ extractions = extractionsIdle

(***************************************************************************)
(* SpecHint: construction of FixItHint values                              *)
(***************************************************************************)
NextHint ==
  \/ \E m \in ModificationType, r \in RangeInputs, t \in TextInputs : FixItHint(m, r, t)
  \/ \E r \in RangeInputs : create(r)
  \/ \E i \in 0..MaxIndex, t \in HintTexts : createInsertion(i, t)
  \/ \E r \in RangeInputs, t \in HintTexts : createReplacement(r, t)
  \/ \E r \in RangeInputs : createRemoval(r)

SpecHint == Init /\ [][NextHint]_vars

(***************************************************************************)
(* Spec: the life of one DiagnosticsMessage without fix-it hints           *)
(***************************************************************************)
Next ==
  \/ \E d \in DataInputs : DiagnosticsMessage(d)
  \/ \E f \in FileInputs, m \in MessageInputs : createError(f, m)
  \/ \E f \in FileInputs, m \in MessageInputs : createWarning(f, m)
  \/ \E f \in FileInputs : setFile(f)
  \/ \E l \in DiagnosticsLevelEnum : setLevel(l)
  \/ \E m \in MessageInputs : setMessage(m)
  \/ \E n \in ContextStarts, l \in ContextInputs : setContext(n, l)
  \/ toString

Spec == Init /\ [][Next]_vars

(***************************************************************************)
(* SpecFix: fix-it hints on a constructed message                          *)
(***************************************************************************)
FixMessages ==
  {[text |-> <<"x", "y">>, linenumber |-> Undefined, column |-> Undefined],
   [text |-> <<"x", "y">>, linenumber |-> Some(2), column |-> Some(2)]}

FixContexts ==
  {[form |-> "array", arr |-> a] :
     a \in {<< <<"a", "b", "c", "d">>, <<"a", "b", "c", "d">> >>,
            << <<"a", "b">>, <<"a", "b", "c", "d">> >>}}

\* a message built by the constructor, with or without a context set by setContext
InitFix ==
  /\ constructed = TRUE
  /\ file = <<"a">>
  /\ level = Error
  /\ message \in FixMessages
  /\ context \in {Undefined} \cup
       {Some([linenumber |-> 1, lines |-> contextLines(l)]) :
          l \in {c \in FixContexts : ~setContextThrows(message, 1, c)}}
  /\ context = Undefined => message.linenumber = Undefined
  /\ fixitHints = <<>>
  /\ hint = Undefined
  /\ last = [op |-> "setContext", ok |-> context # Undefined, form |-> "array"]
  /\ ret = Undefined
  /\ chalkLevel = 1
  /\ raw = rawIdle
  /\ sarif = sarifIdle
  /\ expressive = expressiveNone
  /\ extractions = extractionsIdle

\* ranges of one or two characters starting inside the line
FixRanges == [index : 1..MaxIndex, length : {1, 2}]

FixTexts == {Undefined, Some(<<"x", "y">>)}

\* the hints the FixItHint constructor yields for the inputs of SpecFix
FixHints ==
  {FixItHintValue(m, r, t) :
     <<m, r, t>> \in {x \in ModificationType \X FixRanges \X FixTexts :
                        ~FixItHintThrows(x[1], x[2], x[3])}}

NextFix ==
  \/ \E h \in FixHints : addFixitHint(h)
  \/ applyFixitHints
  \/ createPatch
  \/ toString
  \/ \E w \in BOOLEAN : applyPatch(w)

SpecFix == InitFix /\ [][NextFix]_vars

(***************************************************************************)
(* SpecRaw: the raw extractor reading a file line by line                  *)
(***************************************************************************)
\* the longest input, in lines
MaxInput == 3

\* lines of compiler output: headers (plain, indented, with line number 0,
\* after other text) and other lines (empty, short, indented)
RawLines ==
  {<<"a", ":", "2", ":", "1", ":", " ", "e", "r", "r", "o", "r", ":", " ", "m">>,
   <<" ", " ", "b", ".", "c", ":", "1", ":", "1", "0", ":", " ", "n", "o", "t", "e", ":", " ", "m">>,
   <<"a", ":", "0", ":", "1", ":", " ", "w", "a", "r", "n", "i", "n", "g", ":", " ", "m">>,
   <<"x", " ", "a", ":", "1", ":", "2", ":", " ", "w", "a", "r", "n", "i", "n", "g", ":", " ", "m">>,
   <<>>,
   <<" ", "y">>,
   <<" ", " ", " ", "z">>}

RECURSIVE SeqsUpTo(_, _)
SeqsUpTo(S, n) ==
  IF n = 0 THEN {<<>>}
  ELSE SeqsUpTo(S, n - 1) \cup {Append(q, x) : q \in SeqsUpTo(S, n - 1), x \in S}

InitRaw ==
  /\ constructed = FALSE
  /\ file = <<>>
  /\ level = 1
  /\ message = [text |-> <<>>, linenumber |-> Undefined, column |-> Undefined]
  /\ context = Undefined
  /\ fixitHints = <<>>
  /\ hint = Undefined
  /\ last = [op |-> "none", ok |-> TRUE]
  /\ ret = Undefined
  /\ chalkLevel = 0
  /\ raw \in {[lineReader |-> in, currentMessage |-> Undefined, matchIndex |-> 0,
               yielded |-> <<>>, status |-> "running"] : in \in SeqsUpTo(RawLines, MaxInput)}
  /\ sarif = sarifIdle
  /\ expressive = expressiveNone
  /\ extractions = extractionsIdle

NextRaw ==
  \/ extractRawLine
  \/ extractRawEnd

SpecRaw == InitRaw /\ [][NextRaw]_vars

(***************************************************************************)
(* SpecCalls: two extractRaw calls over two files, advanced in any order   *)
(***************************************************************************)
\* the longest input of each of the two calls, in lines
MaxCallInput == 2

\* a header, an indented header and a line of another kind
CallLines ==
  {<<"a", ":", "2", ":", "1", ":", " ", "e", "r", "r", "o", "r", ":", " ", "m">>,
   <<" ", " ", "b", ".", "c", ":", "1", ":", "1", "0", ":", " ", "n", "o", "t", "e", ":", " ", "m">>,
   <<" ", " ", " ", "z">>}

InitCalls ==
  /\ constructed = FALSE
  /\ file = <<>>
  /\ level = 1
  /\ message = [text |-> <<>>, linenumber |-> Undefined, column |-> Undefined]
  /\ context = Undefined
  /\ fixitHints = <<>>
  /\ hint = Undefined
  /\ last = [op |-> "none", ok |-> TRUE]
  /\ ret = Undefined
  /\ chalkLevel = 0
  /\ raw = rawIdle
  /\ sarif = sarifIdle
  /\ expressive = expressiveNone
  /\ extractions \in
       {[iterators |-> <<[input |-> a, generator |-> startRaw(a)],
                         [input |-> b, generator |-> startRaw(b)]>>,
         lastIndex |-> 0] :
          a \in SeqsUpTo(CallLines, MaxCallInput), b \in SeqsUpTo(CallLines, MaxCallInput)}

NextCalls ==
  \/ \E i \in {1, 2} : extractRawLineOf(i)
  \/ \E i \in {1, 2} : extractRawEndOf(i)

SpecCalls == InitCalls /\ [][NextCalls]_vars

(***************************************************************************)
(* SpecSarif: the SARIF extractor reading the results of one run           *)
(***************************************************************************)
\* the most results of a run
MaxResults == 2

Region(startLine, startColumn, snippet) ==
  Some([startLine |-> startLine, startColumn |-> startColumn, snippet |-> snippet])

PhysicalLocation(uri, reg) ==
  Some([artifactLocation |-> uri, region |-> reg])

\* a location without a physical location
NoPlace == [physicalLocation |-> Undefined]

\* a physical location without artifact and region
BarePlace == [physicalLocation |-> PhysicalLocation(Undefined, Undefined)]

\* line 2, column 3 of "a", with a snippet of two lines
FullPlace ==
  [physicalLocation |->
     PhysicalLocation(Some([uri |-> Some(<<"a">>)]),
                      Region(Some(2), Some(3), Some([text |-> Some(<<"a", "b", "\n", "c", "d">>)])))]

\* line 1 of "b", with the empty snippet
EmptySnippetPlace ==
  [physicalLocation |->
     PhysicalLocation(Some([uri |-> Some(<<"b">>)]),
                      Region(Some(1), Undefined, Some([text |-> Some(<<>>)])))]

\* a region with a snippet that has no text
NoTextPlace ==
  [physicalLocation |->
     PhysicalLocation(Some([uri |-> Undefined]),
                      Region(Undefined, Some(2), Some([text |-> Undefined])))]

SarifLocations ==
  {Undefined, Some(<<>>), Some(<<FullPlace>>), Some(<<NoPlace, BarePlace>>),
   Some(<<FullPlace, NoTextPlace>>), Some(<<EmptySnippetPlace, FullPlace>>)}

SarifLevels ==
  {Undefined, Some(<<"e", "r", "r", "o", "r">>), Some(<<"w", "a", "r", "n", "i", "n", "g">>),
   Some(<<"n", "o", "t", "e">>), Some(<<"n", "o", "n", "e">>)}

SarifResults ==
  {[message |-> [text |-> Some(<<"m">>)], level |-> l, locations |-> Some(<<BarePlace>>)] :
     l \in SarifLevels}
  \cup {[message |-> [text |-> t], level |-> Undefined, locations |-> ls] :
          t \in {Undefined, Some(<<"m">>)}, ls \in SarifLocations}

SarifRuns ==
  {[results |-> Undefined]} \cup {[results |-> Some(rs)] : rs \in SeqsUpTo(SarifResults, MaxResults)}

\* a log of two runs, read at the given run or at the last one
InitSarif ==
  /\ constructed = FALSE
  /\ file = <<>>
  /\ level = 1
  /\ message = [text |-> <<>>, linenumber |-> Undefined, column |-> Undefined]
  /\ context = Undefined
  /\ fixitHints = <<>>
  /\ hint = Undefined
  /\ last = [op |-> "none", ok |-> TRUE]
  /\ ret = Undefined
  /\ chalkLevel = 0
  /\ raw = rawIdle
  /\ expressive = expressiveNone
  /\ extractions = extractionsIdle
  /\ sarif \in {[log |-> <<first, run>>, run |-> n, result |-> 1, location |-> 1,
                 yielded |-> <<>>, status |-> "running"] :
                  first \in {[results |-> Undefined]},
                  run \in SarifRuns,
                  n \in {Undefined, Some(1)}}
                \cup
                {[log |-> <<run, [results |-> Some(<<>>)]>>, run |-> Some(0), result |-> 1,
                  location |-> 1, yielded |-> <<>>, status |-> "running"] :
                   run \in SarifRuns}

NextSarif ==
  \/ extractFromSarifLocation
  \/ extractFromSarifResult
  \/ extractFromSarifEnd

SpecSarif == InitSarif /\ [][NextSarif]_vars

(***************************************************************************)
(* SpecLegacy: the life of one legacy ExpressiveMessage                    *)
(***************************************************************************)
LegacyLines == {<<>>, <<<<"a">>>>, << <<"a">>, <<"b">> >>}

LegacyStrings == {<<>>, <<"a", "\n", "b">>}

LegacyContexts ==
  {[form |-> "array", arr |-> a] : a \in LegacyLines}
    \cup {[form |-> "string", str |-> t] : t \in LegacyStrings}

LegacyStarts == 0..MaxLine

LegacyLineNumbers == 0..(MaxLine + 2)

LegacyData ==
  {Undefined} \cup
  {Some([id |-> <<"a">>, message |-> <<"m">>, lineNumber |-> n, context |-> c]) :
     n \in {Undefined} \cup {Some(k) : k \in LegacyLineNumbers},
     c \in {Undefined} \cup {Some([index |-> i, lines |-> a]) :
                               i \in LegacyStarts, a \in LegacyLines}}

InitLegacy ==
  /\ constructed = FALSE
  /\ file = <<>>
  /\ level = 1
  /\ message = [text |-> <<>>, linenumber |-> Undefined, column |-> Undefined]
  /\ context = Undefined
  /\ fixitHints = <<>>
  /\ hint = Undefined
  /\ last = [op |-> "none", ok |-> TRUE]
  /\ ret = Undefined
  /\ chalkLevel = 0
  /\ raw = rawIdle
  /\ sarif = sarifIdle
  /\ expressive = expressiveNone
  /\ extractions = extractionsIdle

NextLegacy ==
  \/ \E d \in LegacyData : ExpressiveMessage(d)
  \/ ExpressiveId(<<"a">>)
  \/ \E n \in LegacyLineNumbers : ExpressiveLineNumber(n)
  \/ \E l \in LegacyContexts, i \in LegacyStarts : ExpressiveContext(l, i)
  \/ ExpressiveToString

SpecLegacy == InitLegacy /\ [][NextLegacy]_vars

(***************************************************************************)
(* SpecRender: toString of a message with a context and fix-it hints       *)
(***************************************************************************)
\* a message with a column inside its text, one with a column and a short
\* text, and one without a column
RenderMessages ==
  {[text |-> <<"x", "y", "z">>, linenumber |-> Some(9), column |-> Some(3)],
   [text |-> <<"x">>, linenumber |-> Some(9), column |-> Some(1)],
   [text |-> <<"x">>, linenumber |-> Some(9), column |-> Undefined]}

\* windows of two lines around line 9: lines 8..9 and lines 9..10
RenderWindows ==
  {[linenumber |-> 8, lines |-> [form |-> "array", arr |-> << <<"a", "b">>, <<"a", "b", "c", "d">> >>]],
   [linenumber |-> 9, lines |-> [form |-> "array", arr |-> << <<"a", "b", "c", "d">>, <<"a", "b">> >>]]}

RenderTexts == {Undefined, Some(<<"x", "y", "z">>)}

\* the hints the FixItHint constructor yields for the inputs of SpecRender
RenderHints ==
  {FixItHintValue(m, r, t) :
     <<m, r, t>> \in {x \in ModificationType \X FixRanges \X RenderTexts :
                        ~FixItHintThrows(x[1], x[2], x[3])}}

\* a message built by the constructor, with the context set by setContext
InitRender ==
  /\ constructed = TRUE
  /\ file = <<"a">>
  /\ level = Note
  /\ message \in RenderMessages
  /\ context \in {Some([linenumber |-> w.linenumber, lines |-> contextLines(w.lines)]) :
                    w \in {v \in RenderWindows :
                             ~setContextThrows(message, v.linenumber, v.lines)}}
  /\ fixitHints = <<>>
  /\ hint = Undefined
  /\ last = [op |-> "setContext", ok |-> TRUE, form |-> "array"]
  /\ ret = Undefined
  /\ chalkLevel \in {0, 1}
  /\ raw = rawIdle
  /\ sarif = sarifIdle
  /\ expressive = expressiveNone
  /\ extractions = extractionsIdle

NextRender ==
  \/ \E h \in RenderHints : addFixitHint(h)
  \/ toString

SpecRender == InitRender /\ [][NextRender]_vars

(***************************************************************************)
(* Claims about the message and its context (checked under Spec)           *)
(***************************************************************************)
\* C3: whenever a context is attached, the effective line number of the
\* message lies within [context.linenumber, context.linenumber + lines.length - 1].
C3_LineWithinContext ==
  (constructed /\ context # Undefined) =>
    /\ context[1].linenumber <= effectiveLine(message)
    /\ effectiveLine(message) <= context[1].linenumber + Len(context[1].lines) - 1

\* C4: for the array form and the string form alike, setContext(startLine, lines)
\* succeeds iff startLine >= 1 and startLine <= messageLine <= startLine + n - 1
\* with n the number of context lines; a failing call attaches nothing.
C4_SetContextIffInRange ==
  [][last'.op = "setContext" =>
     \A n \in ContextStarts, l \in ContextInputs :
       setContext(n, l) =>
         /\ last'.ok <=> /\ n >= 1
                         /\ n <= effectiveLine(message)
                         /\ effectiveLine(message) <= n + Len(contextLines(l)) - 1
         /\ ~last'.ok => context' = context]_vars

FileViolates(f) == \E i \in 1..Len(f) : f[i] \in {"\n", " "}

MessageViolates(m) ==
  \/ \E i \in 1..Len(m.text) : m.text[i] = "\n"
  \/ m.linenumber # Undefined /\ m.linenumber[1] < 1
  \/ m.column # Undefined /\ m.column[1] < 1

\* C5: the file of a message holds no newline and no space, its text no
\* newline, its line number and column are >= 1 when present; a constructor,
\* factory, setFile or setMessage call that would break this fails and leaves
\* file and message as they were.
C5_FileAndMessageValid ==
  [][/\ constructed' => ~FileViolates(file') /\ ~MessageViolates(message')
     /\ (last'.op \in {"setFile", "setMessage"} /\ ~last'.ok) =>
          file' = file /\ message' = message
     /\ (last'.op \in {"DiagnosticsMessage", "createError", "createWarning"} /\ ~last'.ok) =>
          ~constructed']_vars

C5_Witness ==
  /\ constructed
  /\ last.op = "setMessage"
  /\ ~last.ok
  /\ message.column # Undefined

\* the label of each severity level, as the claim lists them
LevelLabel(l) ==
  CASE l = 0 -> <<"i", "g", "n", "o", "r", "e", "d">>
    [] l = 1 -> <<"n", "o", "t", "e">>
    [] l = 2 -> <<"r", "e", "m", "a", "r", "k">>
    [] l = 3 -> <<"w", "a", "r", "n", "i", "n", "g">>
    [] l = 4 -> <<"e", "r", "r", "o", "r">>
    [] l = 5 -> <<"f", "a", "t", "a", "l">>

\* decimal notation of a number below 100
Decimal(n) ==
  LET D == [d \in 0..9 |->
              CASE d = 0 -> "0" [] d = 1 -> "1" [] d = 2 -> "2" [] d = 3 -> "3" [] d = 4 -> "4"
                [] d = 5 -> "5" [] d = 6 -> "6" [] d = 7 -> "7" [] d = 8 -> "8" [] d = 9 -> "9"]
  IN IF n < 10 THEN <<D[n]>> ELSE <<D[n \div 10], D[n % 10]>>

HeaderLine(f, l, m) ==
  f \o <<":">>
    \o Decimal(IF m.linenumber = Undefined THEN 1 ELSE m.linenumber[1]) \o <<":">>
    \o Decimal(IF m.column = Undefined THEN 1 ELSE m.column[1]) \o <<":", " ">>
    \o LevelLabel(l) \o <<":", " ">> \o m.text

\* C6: without a context, toString with the style codes stripped is the one
\* line "{file}:{line}:{column}: {label}: {text}", line and column being 1 when
\* omitted, the level Note when omitted, the label that of the level.
C6_HeaderOnly ==
  /\ (last.op = "toString" /\ context = Undefined) =>
       /\ unchalk(ret[1]) = HeaderLine(file, level, message)
       /\ \A i \in 1..Len(ret[1]) : ret[1][i] # "\n"
  /\ (last.op = "DiagnosticsMessage" /\ last.ok /\ last.level = Undefined) =>
       /\ level = 1
       /\ unchalk(toStringValue(file, level, message, context, fixitHints, chalkLevel))
            = HeaderLine(file, 1, message)

C6_Witness ==
  /\ last.op = "toString"
  /\ context = Undefined
  /\ message.linenumber = Some(2)
  /\ message.column = Undefined
  /\ level = Fatal
  /\ chalkLevel = 1

(***************************************************************************)
(* Claims about fix-it hints and patches (checked under SpecFix)           *)
(***************************************************************************)
\* C1: the attached hints are pairwise non-overlapping: the index of no hint
\* lies in the closed interval [index, index + length] of another attached hint.
C1_PairwiseNonOverlapping ==
  \A i, j \in 1..Len(fixitHints) :
    i # j =>
      ~ /\ fixitHints[j].range.index <= fixitHints[i].range.index
        /\ fixitHints[i].range.index <= fixitHints[j].range.index + fixitHints[j].range.length

\* C2: a failing addFixitHint (no context, or a hint rejected for overlap)
\* leaves the hints of the message exactly as they were.
C2_FailedAddKeepsHints ==
  [][(last'.op = "addFixitHint" /\ ~last'.ok) => fixitHints' = fixitHints]_vars

C2_Witness ==
  /\ last.op = "addFixitHint"
  /\ ~last.ok
  /\ context # Undefined
  /\ Len(fixitHints) = 1

\* the range [index, index + length) of h lies inside the line
InsideLine(h, line) ==
  /\ h.range.index >= 1
  /\ h.range.length >= 0
  /\ h.range.index + h.range.length - 1 <= Len(line)

\* the line with the edit of h spliced in at its 1-based range
Spliced(line, h) ==
  LET before == SubSeq(line, 1, h.range.index - 1)
      from == SubSeq(line, h.range.index, Len(line))
      after == SubSeq(line, h.range.index + h.range.length, Len(line))
  IN CASE h.modification = "INSERT" -> before \o h.text[1] \o from
       [] h.modification = "REMOVE" -> before \o after
       [] h.modification = "REPLACE" -> before \o h.text[1] \o after
       [] h.modification = "DEFAULT" -> line

\* the line of the context the message points at
OwnLine == context[1].lines[effectiveLine(message) - context[1].linenumber + 1]

PatchRows(patch) == Split(patch)

\* C10: the patch has one hunk that lists every context line once and in
\* order, with at most one removed/added pair: the pair stands at the
\* message's own line only ('-' original immediately followed by '+' fixed),
\* every other context line is an unchanged row, and there is no pair when
\* the fixed line equals the original.
C10_OnePairAtOwnLine ==
  (last.op = "createPatch" /\ last.ok) =>
    LET rows == PatchRows(ret[1])
        body == SubSeq(rows, 4, Len(rows))
        own == effectiveLine(message) - context[1].linenumber + 1
        minus == {k \in 1..Len(body) : body[k][1] = "-"}
        plus == {k \in 1..Len(body) : body[k][1] = "+"}
        kept == SelectSeq(body, LAMBDA row : row[1] # "+")
    IN /\ Cardinality({k \in 1..Len(rows) : rows[k][1] = "@"}) = 1
       /\ Len(kept) = Len(context[1].lines)
       /\ \A k \in 1..Len(kept) :
            /\ kept[k][1] \in {" ", "-"}
            /\ Tail(kept[k]) = context[1].lines[k]
       /\ Cardinality(minus) <= 1
       /\ \A k \in minus :
            /\ k = own
            /\ k + 1 \in plus
            /\ Tail(body[k + 1]) # Tail(body[k])
       /\ \A k \in plus : k - 1 \in minus

\* the line with the edits of hints[1..k] each spliced in at its own range of
\* the original line: the last hint first, so that no edit moves the place of
\* a hint still to come
RECURSIVE SplicedAll(_, _, _)
SplicedAll(line, hints, k) ==
  IF k = 0 THEN line ELSE SplicedAll(Spliced(line, hints[k]), hints, k - 1)

\* the hints as they were before createPatch moved each range.index by the
\* length changes of the hints before it
Unshifted(hints) ==
  LET RECURSIVE Moved(_)
      Moved(k) == IF k <= 1 THEN 0 ELSE Moved(k - 1) + offsetDelta(hints[k - 1])
  IN [k \in 1..Len(hints) |-> [hints[k] EXCEPT !.range.index = @ - Moved(k)]]

\* the context lines with line `own` replaced by `fixed`
WithLine(lines, own, fixed) == [k \in 1..Len(lines) |-> IF k = own THEN fixed ELSE lines[k]]

\* C11: when the file holds the context window, applyPatch(createPatch(message))
\* succeeds and returns the window with only the message's own line replaced
\* by the fully fixed line (every hint applied at its place in the original
\* line) and all other lines unchanged; without hints it returns the window.
C11_PatchRoundTrip ==
  [][(/\ last'.op = "applyPatch"
      /\ last'.window
      /\ LET before == Unshifted(fixitHints)
         IN /\ \A k \in 1..Len(before) : InsideLine(before[k], OwnLine)
            /\ \A k \in 1..(Len(before) - 1) :
                 before[k].range.index + before[k].range.length
                   < before[k + 1].range.index) =>
       /\ last'.ok
       /\ ret' = Some(join(WithLine(context[1].lines,
                                    effectiveLine(message) - context[1].linenumber + 1,
                                    SplicedAll(OwnLine, Unshifted(fixitHints),
                                               Len(fixitHints)))))]_vars

\* C12: on a message without a context, addFixitHint, applyFixitHints and
\* createPatch each fail, and the failing call leaves file, level, message,
\* context and hints as they were.
C12_NoContextFails ==
  [][(context = Undefined /\ last'.op \in {"addFixitHint", "applyFixitHints", "createPatch"}) =>
       /\ ~last'.ok
       /\ UNCHANGED <<file, level, message, context, fixitHints>>]_vars

C12_Witness ==
  /\ context = Undefined
  /\ last.op = "createPatch"
  /\ ~last.ok
  /\ fixitHints = <<>>

\* C17: toString changes nothing of the message (file, level, message,
\* context, hints), and a toString that follows a toString with no other call
\* in between returns the same string.
C17_ToStringRepeatable ==
  [][last'.op = "toString" =>
       /\ UNCHANGED <<file, level, message, context, fixitHints>>
       /\ last.op = "toString" => ret' = ret]_vars

C17_Witness ==
  /\ last.op = "toString"
  /\ context # Undefined
  /\ Len(fixitHints) = 2
  /\ message.column # Undefined

\* C19: in every state reached through addFixitHint, applyFixitHints,
\* toString and createPatch, the hints of the message are in strictly
\* ascending order of range.index.
C19_HintsAscending ==
  \A k \in 1..(Len(fixitHints) - 1) :
    fixitHints[k].range.index < fixitHints[k + 1].range.index

\* C20: with two or more ascending, non-overlapping hints inside the
\* message's context line, applyFixitHints returns the line in which every
\* hint is applied at its position in the original line.
C20_EditsAtOriginalPositions ==
  (/\ last.op = "applyFixitHints"
   /\ context # Undefined
   /\ Len(fixitHints) >= 2
   /\ C19_HintsAscending
   /\ C1_PairwiseNonOverlapping
   /\ \A k \in 1..Len(fixitHints) : InsideLine(fixitHints[k], OwnLine)) =>
    /\ last.ok
    /\ ret = Some(SplicedAll(OwnLine, fixitHints, Len(fixitHints)))

(***************************************************************************)
(* Claims about the raw extractor (checked under SpecRaw)                  *)
(***************************************************************************)
\* the lines of the input that are headers "file:line:column: type: text"
HeaderLines ==
  {<<"a", ":", "2", ":", "1", ":", " ", "e", "r", "r", "o", "r", ":", " ", "m">>,
   <<" ", " ", "b", ".", "c", ":", "1", ":", "1", "0", ":", " ", "n", "o", "t", "e", ":", " ", "m">>,
   <<"a", ":", "0", ":", "1", ":", " ", "w", "a", "r", "n", "i", "n", "g", ":", " ", "m">>,
   <<"x", " ", "a", ":", "1", ":", "2", ":", " ", "w", "a", "r", "n", "i", "n", "g", ":", " ", "m">>}

\* the number of blanks a line starts with
RECURSIVE LeadingBlanks(_)
LeadingBlanks(line) ==
  IF line # <<>> /\ Head(line) = " " THEN 1 + LeadingBlanks(Tail(line)) ELSE 0

\* the line without its first n characters
Drop(line, n) == [k \in 1..(IF Len(line) > n THEN Len(line) - n ELSE 0) |-> line[k + n]]

\* C13: whenever a message is pending and the next line is not a header
\* (an empty line and a line shorter than the indentation included), that
\* step yields the pending message with the one-line context that starts at
\* the message's line and is the line without as many leading characters as
\* the header line had leading whitespace, and the extractor is idle again.
C13_NonHeaderLineYields ==
  [][/\ (/\ raw.status = "running"
        /\ raw.lineReader # <<>>
        /\ Head(raw.lineReader) \in HeaderLines
        /\ raw'.status = "running"
        /\ raw' # raw) =>
          raw'.matchIndex = LeadingBlanks(Head(raw.lineReader))
     /\ (/\ raw.status = "running"
        /\ raw.currentMessage # Undefined
        /\ raw.lineReader # <<>>
        /\ Head(raw.lineReader) \notin HeaderLines
        /\ raw' # raw) =>
          LET pending == raw.currentMessage[1]
              window == [linenumber |-> pending.message.linenumber[1],
                         lines |-> <<Drop(Head(raw.lineReader), raw.matchIndex)>>]
          IN /\ raw'.yielded = Append(raw.yielded, [pending EXCEPT !.context = Some(window)])
             /\ raw'.currentMessage = Undefined
             /\ raw'.status = "running"]_vars

\* C14: when the input ends with a message pending, that message is yielded
\* once, without a context, and the sequence completes; when it ends with no
\* message pending nothing more is yielded; nothing is yielded after the end.
C14_EndOfInputYieldsPending ==
  [][/\ (raw.status = "running" /\ raw.lineReader = <<>> /\ raw' # raw) =>
          /\ raw'.status = "done"
          /\ raw.currentMessage # Undefined =>
               /\ raw.currentMessage[1].context = Undefined
               /\ raw'.yielded = Append(raw.yielded, raw.currentMessage[1])
          /\ raw.currentMessage = Undefined => raw'.yielded = raw.yielded
     /\ raw.status = "done" => raw'.yielded = raw.yielded]_vars

C14_Witness ==
  /\ raw.status = "done"
  /\ Len(raw.yielded) = 2
  /\ raw.yielded[1].context # Undefined
  /\ raw.yielded[2].context = Undefined
  /\ raw.yielded[2].file = <<"b", ".", "c">>

(***************************************************************************)
(* Claims about the SARIF extractor (checked under SpecSarif)              *)
(***************************************************************************)
\* the step yields a message
Yields == Len(sarif'.yielded) = Len(sarif.yielded) + 1

\* the level string of the result under the cursor
ResultLevel == resultsOf(sarif)[sarif.result].level

\* the message the step yields
Yielded == sarif'.yielded[Len(sarif'.yielded)]

\* C15 as stated: the level of a produced message is Error for "error",
\* Warning for "warning", and Warning when the result's level is absent or is
\* any other string.
C15_UnrecognizedIsWarning ==
  [][Yields =>
       Yielded.level = IF ResultLevel = Some(<<"e", "r", "r", "o", "r">>)
                       THEN Error ELSE Warning]_vars

\* C15 as amended: Error for "error", Warning for "warning" and for an absent
\* level, Note for any other string.
C15_LevelMapping ==
  [][Yields =>
       Yielded.level =
         IF ResultLevel = Some(<<"e", "r", "r", "o", "r">>) THEN Error
         ELSE IF ResultLevel \in {Undefined, Some(<<"w", "a", "r", "n", "i", "n", "g">>)}
         THEN Warning
         ELSE Note]_vars

C15_Witness ==
  /\ sarif.yielded # <<>>
  /\ sarif.result <= Len(resultsOf(sarif))
  /\ sarif.location = 2
  /\ resultsOf(sarif)[sarif.result].level = Some(<<"n", "o", "n", "e">>)
  /\ sarif.yielded[Len(sarif.yielded)].level = Note

\* the place a location names, Undefined without a physical location
PlaceOf(location) ==
  IF location.physicalLocation = Undefined THEN Undefined
  ELSE LET pl == location.physicalLocation[1]
           uri == IF pl.artifactLocation = Undefined THEN Undefined
                  ELSE pl.artifactLocation[1].uri
           reg == pl.region
           snippet == IF reg = Undefined \/ reg[1].snippet = Undefined THEN Undefined
                      ELSE reg[1].snippet[1].text
           line == IF reg = Undefined \/ reg[1].startLine = Undefined THEN 1
                   ELSE reg[1].startLine[1]
       IN Some([file |-> IF uri = Undefined THEN <<>> ELSE uri[1],
                line |-> line,
                column |-> IF reg = Undefined \/ reg[1].startColumn = Undefined THEN 1
                           ELSE reg[1].startColumn[1],
                context |-> IF snippet = Undefined THEN Undefined
                            ELSE Some([linenumber |-> line, lines |-> Split(snippet[1])])])

\* the messages due for locations l.. of a result, without their level
RECURSIVE DueOfResult(_, _)
DueOfResult(result, l) ==
  IF l > Len(locationsOf(result)) THEN <<>>
  ELSE (IF result.message.text # Undefined /\ PlaceOf(locationsOf(result)[l]) # Undefined
        THEN LET place == PlaceOf(locationsOf(result)[l])[1]
             IN <<[file |-> place.file,
                   message |-> [text |-> result.message.text[1],
                                linenumber |-> Some(place.line),
                                column |-> Some(place.column)],
                   context |-> place.context]>>
        ELSE <<>>) \o DueOfResult(result, l + 1)

\* the messages due for results r.. of a run
RECURSIVE DueOfResults(_, _)
DueOfResults(results, r) ==
  IF r > Len(results) THEN <<>>
  ELSE DueOfResult(results[r], 1) \o DueOfResults(results, r + 1)

\* C16: the extractor never fails, and once it is done it has yielded, for
\* the selected run (the given index, the last run by default), exactly the
\* messages due for the locations of results that have a message text and a
\* physical location, in the order results then locations, each with its
\* file, line, column and, where the region has a snippet text, that text as
\* context starting at the line.
C16_OneMessagePerLocation ==
  /\ sarif.status # "threw"
  /\ sarif.status = "done" =>
       LET run == sarif.log[IF sarif.run = Undefined THEN Len(sarif.log) ELSE sarif.run[1] + 1]
           due == DueOfResults(IF run.results = Undefined THEN <<>> ELSE run.results[1], 1)
       IN /\ Len(sarif.yielded) = Len(due)
          /\ \A k \in 1..Len(due) :
               /\ sarif.yielded[k].file = due[k].file
               /\ sarif.yielded[k].message = due[k].message
               /\ sarif.yielded[k].context = due[k].context

(***************************************************************************)
(* Claims about the legacy ExpressiveMessage (checked under SpecLegacy)    *)
(***************************************************************************)
\* C18: whenever a context is set and the line number of the message is not
\* the number of one of the context lines (below context.index or above
\* context.index + lines.length - 1), toString throws a RangeError.
C18_LineOutsideContextThrows ==
  (/\ expressive.op = "toString"
   /\ expressive.context # Undefined
   /\ \/ expressive.lineNumber < expressive.context[1].index
      \/ expressive.lineNumber >
           expressive.context[1].index + Len(expressive.context[1].lines) - 1) =>
    expressive.result = "RangeError"

(***************************************************************************)
(* Claims about FixItHint construction (checked under SpecHint)            *)
(***************************************************************************)
TextContract(modification, text) ==
  /\ modification \in {"INSERT", "REPLACE"} => text # Undefined
  /\ modification \in {"DEFAULT", "REMOVE"} => text = Undefined

\* C7: a FixItHint is produced only if INSERT/REPLACE come with a text and
\* DEFAULT/REMOVE come without one; every violating combination throws and
\* produces no hint value.
C7_TextContract ==
  last.op \in HintOps =>
    /\ last.ok => TextContract(last.modification, last.text)
    /\ ~TextContract(last.modification, last.text) => ~last.ok
    /\ ~last.ok => hint = Undefined
    /\ hint # Undefined =>
         /\ last.ok
         /\ hint[1].modification = last.modification
         /\ hint[1].text = last.text

C7_Witness ==
  /\ last.op = "FixItHint"
  /\ last.modification = "DEFAULT"
  /\ last.text # Undefined
  /\ ~last.ok
  /\ hint = Undefined

\* C8: an INSERT hint with a range.length other than 1 (0 and negative
\* lengths included) is rejected, and createInsertion yields length 1.
C8_InsertLengthIsOne ==
  /\ (last.op \in HintOps /\ last.modification = "INSERT" /\ last.range.length # 1) => ~last.ok
  /\ (last.op = "createInsertion" /\ last.ok) => hint[1].range.length = 1

(***************************************************************************)
(* Claims about createPatch and applyFixitHints on the same message        *)
(* (checked under SpecFix)                                                 *)
(***************************************************************************)
\* the fixed line a patch shows: its added row, or the line itself when the
\* patch has no added row
FixedLine(patch, line) ==
  LET rows == PatchRows(patch)
      plus == {k \in 4..Len(rows) : rows[k] # <<>> /\ rows[k][1] = "+"}
  IN IF plus = {} THEN line
     ELSE Tail(rows[CHOOSE k \in plus : \A j \in plus : k <= j])

\* C21: for a message with a context and any attached hints, the fixed ('+')
\* line of createPatch(message) equals the string applyFixitHints returns on
\* the same message.
C21_PatchLineIsAppliedLine ==
  [][(last'.op = "createPatch" /\ last'.ok) =>
       /\ ~applyFixitHintsThrows(message, context, fixitHints)
       /\ Some(FixedLine(ret'[1], OwnLine)) =
            applyFixitHintsValue(message, context, fixitHints)]_vars

\* C22: createPatch does not modify the message it is given: the hints
\* (range.index, range.length, text), file, level, message and context are
\* after the call what they were before it, and a createPatch that follows a
\* createPatch with no other call in between returns the same patch.
C22_CreatePatchKeepsMessage ==
  [][last'.op = "createPatch" =>
       /\ UNCHANGED <<file, level, message, context>>
       /\ getFixitHints' = getFixitHints
       /\ (last.op = "createPatch" /\ last.ok) => ret' = ret]_vars

(***************************************************************************)
(* Claims about the rendered context block (checked under SpecRender)      *)
(***************************************************************************)
\* the rows of the string toString returned, without the colour codes
RenderedRows == Split(unchalk(ret[1]))

\* the place of the message's own line among the context lines, from 1
OwnIndex == effectiveLine(message) - context[1].linenumber + 1

\* the rows toString placed between the message's own line and the next
\* context line (or the end), each without its gutter of the given width
RowsUnderOwnLine(rows, gutter) ==
  LET first == 2 + OwnIndex + 1
      count == Len(rows) - 2 - Len(context[1].lines)
  IN [k \in 1..count |-> SubSeq(rows[first + k - 1], gutter + 4, Len(rows[first + k - 1]))]

\* the character of the first hint row at column i: '^' at the message column
\* unless the first hint covering it is a Mark, '~' under a hint, else a space
MarkAt(i) ==
  LET covering == {k \in 1..Len(fixitHints) :
                     /\ fixitHints[k].range.index <= i
                     /\ i < fixitHints[k].range.index + fixitHints[k].range.length}
      first == CHOOSE k \in covering : \A j \in covering : k <= j
  IN IF message.column = Some(i) /\ (covering = {} \/ fixitHints[first].modification # "DEFAULT")
     THEN "^"
     ELSE IF covering # {} THEN "~" ELSE " "

\* the first hint row over the columns 1..width, right-trimmed
MarkRow(width) == trimEnd([i \in 1..width |-> MarkAt(i)])

\* the largest index + length of the attached hints
HintsEnd ==
  LET ends == {fixitHints[k].range.index + fixitHints[k].range.length : k \in 1..Len(fixitHints)}
  IN CHOOSE e \in ends : \A f \in ends : f <= e

\* a toString of a message with a column whose line is in the context
RenderedWithColumn ==
  /\ last.op = "toString"
  /\ context # Undefined
  /\ message.column # Undefined
  /\ message.linenumber # Undefined
  /\ OwnIndex \in 1..Len(context[1].lines)

\* C23 as stated: the first hint row is the row over the columns 1..maxWidth
\* with maxWidth the largest index + length of the hints, or the length of
\* the message text when there are no hints.
C23_WidthFromHintsOnly ==
  RenderedWithColumn =>
    LET under == RowsUnderOwnLine(RenderedRows, Len(RenderedRows[3]) - 3 - Len(context[1].lines[1]))
    IN /\ Len(under) >= 1
       /\ under[1] = MarkRow(IF fixitHints = <<>> THEN Len(message.text) ELSE HintsEnd)

\* C23: the first hint row rendered by toString equals, after right-trimming,
\* the row built over the columns i = 1..maxWidth with maxWidth = the larger
\* of the message text length and index + length of the last hint (the hint
\* with the largest index), or the message text length when there are no
\* hints: '^' where i is the message column and the first hint covering i (if
\* any) is not a Mark, otherwise '~' where a hint covers i, otherwise a space.
C23_FirstHintRow ==
  RenderedWithColumn =>
    LET under == RowsUnderOwnLine(RenderedRows, Len(RenderedRows[3]) - 3 - Len(context[1].lines[1]))
        lastHint == fixitHints[Len(fixitHints)]
    IN /\ Len(under) >= 1
       /\ under[1] = MarkRow(IF fixitHints = <<>> THEN Len(message.text)
                             ELSE Max(lastHint.range.index + lastHint.range.length,
                                      Len(message.text)))

C23_Witness ==
  /\ RenderedWithColumn
  /\ Len(fixitHints) = 1
  /\ fixitHints[1].range = [index |-> 1, length |-> 1]
  /\ fixitHints[1].modification = "REMOVE"
  /\ message.column = Some(3)
  /\ RowsUnderOwnLine(RenderedRows, 2) = << <<"~", " ", "^">> >>

\* the number of hint rows in the rendered rows
HintRowCount(rows) == Len(rows) - 2 - Len(context[1].lines)

\* the rendered row of context line k, from 1
ContextRow(rows, k) == rows[2 + k + (IF k > OwnIndex THEN HintRowCount(rows) ELSE 0)]

\* the rendered hint rows, which follow the message's own line
HintRows(rows) == [k \in 1..HintRowCount(rows) |-> rows[2 + OwnIndex + k]]

\* the decimal digits of n padded on the left to the given width
Padded(n, width) ==
  [k \in 1..(IF Len(Decimal(n)) < width THEN width - Len(Decimal(n)) ELSE 0) |-> " "]
    \o Decimal(n)

\* C24: in the rendered context block every line number is padded to a
\* gutter as wide as the largest line number of the window,
\* startLine + lines.length - 1, has digits, and the hint rows start with a
\* gutter of the same width.
C24_GutterOfLargestLineNumber ==
  (/\ last.op = "toString"
   /\ context # Undefined
   /\ message.linenumber # Undefined
   /\ OwnIndex \in 1..Len(context[1].lines)) =>
    LET rows == RenderedRows
        width == Len(Decimal(context[1].linenumber + Len(context[1].lines) - 1))
    IN /\ \A k \in 1..Len(context[1].lines) :
            ContextRow(rows, k) =
              Padded(context[1].linenumber + k - 1, width) \o <<" ", "|", " ">>
                \o context[1].lines[k]
       /\ \A k \in 1..HintRowCount(rows) :
            /\ Len(HintRows(rows)[k]) >= width + 3
            /\ SubSeq(HintRows(rows)[k], 1, width + 3) =
                 [j \in 1..width |-> " "] \o <<" ", "|", " ">>

\* the last n characters of a row
Suffix(row, n) == SubSeq(row, Len(row) - n + 1, Len(row))

\* C25: whenever a context is attached, toString emits, in order, the
\* header, one blank line and one row per context line in context order, with
\* one or two hint rows immediately after the message's own line and nowhere
\* else; a message without a column is rendered with column 1, in the header
\* and with its caret row.
C25_BlockLayout ==
  (/\ last.op = "toString"
   /\ context # Undefined) =>
    LET rows == RenderedRows
    IN /\ rows[1] = HeaderLine(file, level, message)
       /\ rows[2] = <<>>
       /\ HintRowCount(rows) \in {1, 2}
       /\ \A k \in 1..Len(context[1].lines) :
            /\ Len(ContextRow(rows, k)) >= Len(context[1].lines[k]) + 3
            /\ Suffix(ContextRow(rows, k), Len(context[1].lines[k]) + 3) =
                 <<" ", "|", " ">> \o context[1].lines[k]
       /\ fixitHints = <<>> =>
            \E g \in 1..3 :
              HintRows(rows)[1] =
                [j \in 1..g |-> " "] \o <<" ", "|", " ">>
                  \o [j \in 1..effectiveColumn(message) |->
                        IF j = effectiveColumn(message) THEN "^" ELSE " "]

\* the attached hints whose text holds a character other than a space
TextHints ==
  {k \in 1..Len(fixitHints) :
     /\ fixitHints[k].text # Undefined
     /\ \E j \in 1..Len(fixitHints[k].text[1]) : fixitHints[k].text[1][j] # " "}

\* C26: the second hint row is emitted if and only if some attached hint has
\* a text with a character other than a space, and when emitted it shows the
\* complete text of every such hint, starting at the column range.index of
\* that hint.
C26_SecondRowShowsTexts ==
  RenderedWithColumn =>
    LET under == RowsUnderOwnLine(RenderedRows, Len(RenderedRows[3]) - 3 - Len(context[1].lines[1]))
    IN /\ Len(under) = 2 <=> TextHints # {}
       /\ Len(under) = 2 =>
            \A k \in TextHints :
              LET from == fixitHints[k].range.index
                  to == from + Len(fixitHints[k].text[1]) - 1
              IN /\ Len(under[2]) >= to
                 /\ SubSeq(under[2], from, to) = fixitHints[k].text[1]

(***************************************************************************)
(* Claims about the raw extractor's state machine (checked under SpecRaw)  *)
(***************************************************************************)
\* the message a header line "file:line:column: type: text" stands for
HeaderMessage(line) ==
  LET fields ==
        CASE line = <<"a", ":", "2", ":", "1", ":", " ", "e", "r", "r", "o", "r", ":", " ", "m">> ->
               [file |-> <<"a">>, linenumber |-> 2, column |-> 1, level |-> 4]
          [] line = <<" ", " ", "b", ".", "c", ":", "1", ":", "1", "0", ":", " ", "n", "o", "t", "e", ":", " ", "m">> ->
               [file |-> <<"b", ".", "c">>, linenumber |-> 1, column |-> 10, level |-> 1]
          [] line = <<"a", ":", "0", ":", "1", ":", " ", "w", "a", "r", "n", "i", "n", "g", ":", " ", "m">> ->
               [file |-> <<"a">>, linenumber |-> 0, column |-> 1, level |-> 3]
          [] line = <<"x", " ", "a", ":", "1", ":", "2", ":", " ", "w", "a", "r", "n", "i", "n", "g", ":", " ", "m">> ->
               [file |-> <<"a">>, linenumber |-> 1, column |-> 2, level |-> 3]
  IN [file |-> fields.file,
      level |-> fields.level,
      message |-> [text |-> <<"m">>, linenumber |-> <<fields.linenumber>>,
                   column |-> <<fields.column>>],
      context |-> <<>>]

\* C27: at most one message is pending at any time; a header line arriving
\* while a message is pending discards that message without yielding it and
\* makes its own message the pending one; a line that is not a header is
\* ignored while no message is pending and yields the pending message (once)
\* otherwise; the end of the input yields the pending message. So the
\* messages yielded are, in input order, those of the header lines not
\* immediately followed by another header line, and no others.
C27_RawStateMachine ==
  [][(raw.status = "running" /\ raw' # raw) =>
       IF raw.lineReader = <<>>
       THEN /\ raw'.status = "done"
            /\ raw'.yielded = IF raw.currentMessage # <<>>
                              THEN Append(raw.yielded, raw.currentMessage[1])
                              ELSE raw.yielded
       ELSE /\ raw'.status = "running"
            /\ raw'.lineReader = Tail(raw.lineReader)
            /\ IF Head(raw.lineReader) \in HeaderLines
               THEN /\ raw'.yielded = raw.yielded
                    /\ raw'.currentMessage # <<>>
                    /\ raw'.currentMessage[1].file = HeaderMessage(Head(raw.lineReader)).file
                    /\ raw'.currentMessage[1].message = HeaderMessage(Head(raw.lineReader)).message
               ELSE IF raw.currentMessage # <<>>
               THEN /\ Len(raw'.yielded) = Len(raw.yielded) + 1
                    /\ SubSeq(raw'.yielded, 1, Len(raw.yielded)) = raw.yielded
                    /\ raw'.yielded[Len(raw'.yielded)].file = raw.currentMessage[1].file
                    /\ raw'.yielded[Len(raw'.yielded)].message = raw.currentMessage[1].message
                    /\ raw'.currentMessage = <<>>
               ELSE /\ raw'.yielded = raw.yielded
                    /\ raw'.currentMessage = <<>>]_vars

\* C28: every input line that matches the header pattern, headers with line
\* number or column number 0 included, produces a pending message with the
\* file, line, column, level and text of that header; it does not make the
\* extraction fail and loses no message already yielded or yet to come.
C28_EveryHeaderPends ==
  [][(/\ raw.status = "running"
      /\ raw.lineReader # <<>>
      /\ Head(raw.lineReader) \in HeaderLines
      /\ raw' # raw) =>
       /\ raw'.status = "running"
       /\ raw'.currentMessage = <<HeaderMessage(Head(raw.lineReader))>>
       /\ raw'.yielded = raw.yielded
       /\ raw'.lineReader = Tail(raw.lineReader)]_vars

(***************************************************************************)
(* Claims about extractRaw calls side by side (checked under SpecCalls)    *)
(***************************************************************************)
\* an extractRaw call run alone over `lines` with a regular expression of its
\* own, after k steps of its loop (and the end of the input when `ended`)
RECURSIVE Alone(_, _, _)
Alone(g, k, lastIndex) ==
  IF k = 0 \/ g.status # "running" \/ g.lineReader = <<>> THEN g
  ELSE LET found == regexExec(Head(g.lineReader), lastIndex)
       IN Alone(afterLine(g, found.match), k - 1, found.lastIndex)

RunAlone(lines, k, ended) ==
  LET g == Alone(startRaw(lines), k, 0)
  IN IF ended /\ g.status = "running" /\ g.lineReader = <<>> THEN afterEnd(g) ELSE g

\* C29: two raw-extraction iterators over different line sequences, advanced
\* in any interleaving, each yield what they yield when run alone: after any
\* number of its own steps an iterator has yielded the same messages, holds
\* the same pending message and indentation, and has ended or failed, as the
\* same call run alone after as many steps.
C29_CallsAreIsolated ==
  \A i \in 1..Len(extractions.iterators) :
    LET it == extractions.iterators[i]
    IN it.generator =
         RunAlone(it.input, Len(it.input) - Len(it.generator.lineReader),
                  it.generator.status = "done")

C29_Witness ==
  /\ Len(extractions.iterators) = 2
  /\ extractions.iterators[1].input # extractions.iterators[2].input
  /\ extractions.iterators[1].generator.lineReader # <<>>
  /\ extractions.iterators[2].generator.lineReader # <<>>
  /\ extractions.iterators[1].generator.currentMessage # <<>>
  /\ extractions.iterators[2].generator.currentMessage # <<>>
  /\ extractions.iterators[1].generator.matchIndex = 0
  /\ extractions.iterators[2].generator.matchIndex = 2

(***************************************************************************)
(* Claims about the ranges of attached hints (checked under SpecFix)       *)
(***************************************************************************)
\* h is a well-formed range over the line: it starts at 1 or later, has no
\* negative length and ends inside the line; an insertion may point at the
\* position after the last character
WellFormedOver(h, line) ==
  /\ h.range.index >= 1
  /\ h.range.length >= 0
  /\ IF h.modification = "INSERT"
     THEN h.range.index <= Len(line) + 1
     ELSE h.range.index + h.range.length - 1 <= Len(line)

\* C30: every hint that addFixitHint attaches to a message is a well-formed
\* range over the message's context line; a hint that is not is rejected.
C30_AttachedHintsWellFormed ==
  [][(last'.op = "addFixitHint" /\ last'.ok) =>
       \A k \in 1..Len(fixitHints') :
         \/ \E j \in 1..Len(fixitHints) : fixitHints[j] = fixitHints'[k]
         \/ WellFormedOver(fixitHints'[k], OwnLine)]_vars

====
